---- MODULE Spec2Model ----
(***************************************************************************)
(* FinBuddy back end: the cohort statistics builder, the per-transaction   *)
(* enrichment fan-out, the scorers and the /scores route.                  *)
(*                                                                         *)
(* JSON values are records [k, v]: k is "none" (null or absent key),        *)
(* "int" (a JSON number), "str" (a numeric string, what Blockscout sends)  *)
(* or "bad" (a non-empty string int() rejects).                            *)
(***************************************************************************)
EXTENDS Integers, Sequences, FiniteSets, TLC

VARIABLES
    \* ---- get_cohort_stats (transactions.py 246-301)
    cpc,            \* position of the builder: "listing", "gathering", "done"
    blocks,         \* argument blocks
    tx_cap,         \* argument tx_cap
    recent_blocks,  \* what get_recent_blocks returned
    block_numbers,  \* local block_numbers
    base_fees,      \* local base_fees
    tasks,          \* the gathered get_block_transactions calls, by position
    txs,            \* local txs after the truncation of line 274
    eGP_list,       \* local eGP_list
    tip_list,       \* local tip_list
    cohort,         \* the returned dict (read it only once cpc = "done")
    listing,        \* how the get_recent_blocks call ended: "pending", "ok", "failed"
    \* ---- get_comprehensive_transaction_data (transactions.py 173-210)
    epc,            \* position of the call: "idle", "gathering", "done"
    etx,            \* argument tx
    etasks,         \* the five gathered tasks, by position
    enhanced_data,  \* the returned dict (read it only once epc = "done")
    \* ---- the scorers of scoring.py called on their own
    spc,            \* "idle", "call", "done"
    s_tx,           \* argument tx
    s_api,          \* argument api_data
    s_enhanced,     \* what score_transaction_enhanced returned or raised
    s_legacy,       \* what TransactionScorer.score_transaction returned
    enhanced_scorer,\* the EnhancedTransactionScorer object (its attributes)
    scorer,         \* the TransactionScorer object (its attributes)
    calls,          \* the scoring calls made on the two objects so far, with their outputs
    \* ---- GET /transactions/{network}/{evm_address}/scores (routes.py)
    rpc,            \* "idle", "listing", "cohort", "enrich", "done", "error"
    transactions,   \* what get_last_transactions returned
    cohort_stats,   \* what get_cohort_stats returned
    r_i,            \* position of the loop in transactions
    r_tasks,        \* per transaction reached, the five tasks of its enrichment
    scored_transactions,
    r_status,       \* status code of the HTTP error, 200 without one
    cohort_builds,  \* how many times the request has awaited get_cohort_stats
    \* ---- get_last_transactions called on its own (both copies)
    l_answer,       \* what the data source answers to the listing
    l_ret,          \* what app/transactions.py get_last_transactions returned or raised
    l_old_ret,      \* the same for the copy in src/back/transactions.py
    \* ---- websocket /aiservice/analyse (routes.py 108-138) and explain
    wpc,            \* "idle", "receive", "explain", "respond", "close", "closed", "gone"
                    \* ("gone": the handler ended without closing)
    w_client,       \* "connected" or "disconnected"
    w_req,          \* the ExplainRequest: its scored transactions
    w_explanations, \* local explanations of explain
    w_result,       \* what the handler is about to send
    w_sent,         \* the messages sent to the client, in order
    w_closed,       \* whether the server closed the connection
    ai_result       \* what explain of ai.py returned or raised, called on w_req

cohortVars == <<cpc, blocks, tx_cap, recent_blocks, block_numbers, base_fees,
                tasks, txs, eGP_list, tip_list, cohort, listing>>

enrichVars == <<epc, etx, etasks, enhanced_data>>

scoreVars == <<spc, s_tx, s_api, s_enhanced, s_legacy, enhanced_scorer, scorer, calls>>

routeVars == <<rpc, transactions, cohort_stats, r_i, r_tasks, scored_transactions, r_status,
               cohort_builds>>

listVars == <<l_answer, l_ret, l_old_ret>>

wsVars == <<wpc, w_client, w_req, w_explanations, w_result, w_sent, w_closed, ai_result>>

vars == <<cpc, blocks, tx_cap, recent_blocks, block_numbers, base_fees,
          tasks, txs, eGP_list, tip_list, cohort, listing,
          epc, etx, etasks, enhanced_data,
          spc, s_tx, s_api, s_enhanced, s_legacy, enhanced_scorer, scorer, calls,
          rpc, transactions, cohort_stats, r_i, r_tasks, scored_transactions, r_status,
          cohort_builds, l_answer, l_ret, l_old_ret,
          wpc, w_client, w_req, w_explanations, w_result, w_sent, w_closed, ai_result>>

----------------------------------------------------------------------------
\* Bounds of the model
MaxBlocks == 2       \* largest blocks argument
MaxListed == 2       \* most block entries one listing answer holds
MaxTxPerBlock == 2   \* most transactions one per-block answer holds
MaxTxCap == 3        \* largest tx_cap argument

----------------------------------------------------------------------------
\* JSON values
None == [k |-> "none", v |-> 0]
Bad == [k |-> "bad", v |-> 0]
JInt(n) == [k |-> "int", v |-> n]
JStr(n) == [k |-> "str", v |-> n]
\* a JSON object (v: a function from keys to values) and a JSON array (v: a sequence)
JDict(f) == [k |-> "dict", v |-> f]
JList(q) == [k |-> "list", v |-> q]
EmptyDict == JDict([x \in {} |-> 0])
EmptyList == JList(<<>>)

\* A text the code searches or measures (a decoded method name, a verdict):
\* its length, the lower-cased keywords it contains, whether it is "0x"
Text(n, ws) == [len |-> n, words |-> ws, is0x |-> FALSE]
Text0x == [len |-> 2, words |-> {}, is0x |-> TRUE]
NoText == Text(0, {})

\* An address string: a non-empty string, with whether it contains "0x000"
\* and whether it starts with "0x00000000000"
Addr(n, z3, z11) == [k |-> "str", v |-> n, has0x000 |-> z3, starts0x00000000000 |-> z11]

\* Python truthiness of a JSON scalar: None and 0 are falsy, a non-empty
\* string ("0" included) is truthy.
Truthy(x) == \/ x.k = "str"
             \/ x.k = "bad"
             \/ (x.k = "int" /\ x.v # 0)

\* a or b
PyOr(a, b) == IF Truthy(a) THEN a ELSE b

\* int(x) succeeds
IntOk(x) == x.k \in {"int", "str"}

Min(a, b) == IF a <= b THEN a ELSE b
Max(a, b) == IF a >= b THEN a ELSE b

\* s[:n], Python slicing (a negative n counts from the end)
PySlice(s, n) ==
    IF n >= 0 THEN SubSeq(s, 1, Min(n, Len(s)))
    ELSE SubSeq(s, 1, Max(0, Len(s) + n))

----------------------------------------------------------------------------
\* asyncio.gather(*tasks, return_exceptions=True): a task is a record with a
\* status ("running" until it has returned) and its return value ret

\* mutant: the join returns as soon as one call has returned
JoinReadyFirst(ts) == \E i \in DOMAIN ts : ts[i].status # "running"

\* asyncio.gather returns once every call has returned
JoinReady(ts) == \A i \in DOMAIN ts : ts[i].status # "running"

\* mutant: one failed call makes the whole gather yield nothing
GatherResultsAbort(ts) ==
    IF \E i \in DOMAIN ts : ts[i].status = "failed" THEN <<>>
    ELSE [i \in 1..Len(ts) |-> ts[i].ret]

\* mutant: the return values in the order in which the calls returned (at is
\* the position of a call in that order)
GatherResultsAsCompleted(ts) ==
    [i \in 1..Len(ts) |-> ts[CHOOSE j \in DOMAIN ts : ts[j].at = i].ret]

\* gather's result list: the calls' return values in the order of the calls
GatherResults(ts) == [i \in 1..Len(ts) |-> ts[i].ret]

----------------------------------------------------------------------------
\* get_comprehensive_transaction_data and the five fetchers (lines 100-210)

Entries == <<"address_info", "token_transfers", "transaction_details",
             "interpreter_data", "transaction_logs">>

\* the fetchers that return a list; the others return a dict
ListEntries == {"token_transfers", "transaction_logs"}

EmptyOf(name) == IF name \in ListEntries THEN EmptyList ELSE EmptyDict

\* What the data source may answer to a fetch: mode "ok" is status 200 with the
\* JSON body, "non200" another status with its body, "error" an exception
\* (connection error, timeout, undecodable body).
DictBodies(name) ==
    CASE name = "address_info" ->
            { JDict([is_contract |-> TRUE, is_verified |-> FALSE, creation_block_number |-> JInt(7)]),
              JDict([is_contract |-> FALSE, is_verified |-> FALSE, creation_block_number |-> None]) }
      [] name = "transaction_details" ->
            { JDict([method |-> Text(24, {"swap"})]), JDict([method |-> Text(7, {"approve"})]) }
      [] name = "interpreter_data" ->
            { JDict([risk_level |-> Text(4, {"high"})]), JDict([risk_level |-> Text(8, {"low"})]) }

ListBodies(name) ==
    { JDict([items |-> JList(<<name>>)]), JList(<<name, name>>), JDict([message |-> JStr(0)]) }

OkBodies(name) == IF name \in ListEntries THEN ListBodies(name) ELSE DictBodies(name)

ErrorBody == JDict([message |-> Bad])

FetchAnswers(name) ==
    {[mode |-> "ok", body |-> b] : b \in OkBodies(name)}
        \cup {[mode |-> "non200", body |-> ErrorBody], [mode |-> "error", body |-> None]}

\* mutant: the status code is not looked at
FetchReturnAnyStatus(name, answer) ==
    IF answer.mode = "error" THEN EmptyOf(name)
    ELSE IF name \notin ListEntries THEN answer.body
    ELSE IF answer.body.k = "dict" /\ "items" \in DOMAIN answer.body.v THEN answer.body.v.items
    ELSE IF answer.body.k = "list" THEN answer.body
    ELSE EmptyList

\* the value a fetcher returns for an answer (lines 100-171)
FetchReturn(name, answer) ==
    IF answer.mode # "ok" THEN EmptyOf(name)
    ELSE IF name \notin ListEntries THEN answer.body
    ELSE IF answer.body.k = "dict" /\ "items" \in DOMAIN answer.body.v THEN answer.body.v.items
    ELSE IF answer.body.k = "list" THEN answer.body
    ELSE EmptyList

\* lines 176-194: a fetch where the address or the hash is there, else a
\* task that sleeps and returns None
EnrichDispatch(tx) ==
    [i \in 1..5 |->
        [kind |-> IF Truthy(IF i <= 2 THEN tx.to ELSE tx.hash) THEN "fetch" ELSE "sleep",
         status |-> "running",
         answer |-> [mode |-> "none", body |-> None],
         ret |-> None,
         early |-> FALSE]]

IsException(r) == r.k = "exception"

\* mutant: the two lists are taken from each other's position
BundleOfSwapped(results) ==
    [address_info |-> IF Len(results) > 0 /\ ~IsException(results[1]) THEN results[1] ELSE EmptyDict,
     token_transfers |-> IF Len(results) > 4 /\ ~IsException(results[5]) THEN results[5] ELSE EmptyList,
     transaction_details |-> IF Len(results) > 2 /\ ~IsException(results[3]) THEN results[3] ELSE EmptyDict,
     interpreter_data |-> IF Len(results) > 3 /\ ~IsException(results[4]) THEN results[4] ELSE EmptyDict,
     transaction_logs |-> IF Len(results) > 1 /\ ~IsException(results[2]) THEN results[2] ELSE EmptyList]

\* lines 198-210
BundleOf(results) ==
    [address_info |-> IF Len(results) > 0 /\ ~IsException(results[1]) THEN results[1] ELSE EmptyDict,
     token_transfers |-> IF Len(results) > 1 /\ ~IsException(results[2]) THEN results[2] ELSE EmptyList,
     transaction_details |-> IF Len(results) > 2 /\ ~IsException(results[3]) THEN results[3] ELSE EmptyDict,
     interpreter_data |-> IF Len(results) > 3 /\ ~IsException(results[4]) THEN results[4] ELSE EmptyDict,
     transaction_logs |-> IF Len(results) > 4 /\ ~IsException(results[5]) THEN results[5] ELSE EmptyList]

NoBundle == BundleOf(<<>>)

EnrichIdle ==
    /\ epc = "idle"
    /\ etx = [hash |-> None, to |-> None]
    /\ etasks = <<>>
    /\ enhanced_data = NoBundle

\* one of the five tasks returns; `early` records that it did so while a task
\* dispatched before it was still running
EnrichTaskReturn(i) ==
    /\ epc = "gathering"
    /\ i \in DOMAIN etasks
    /\ etasks[i].status = "running"
    /\ \E a \in (IF etasks[i].kind = "fetch" THEN FetchAnswers(Entries[i])
                  ELSE {[mode |-> "none", body |-> None]}) :
          etasks' = [etasks EXCEPT ![i] =
                        [kind |-> @.kind, status |-> "done", answer |-> a,
                         ret |-> IF @.kind = "fetch" THEN FetchReturn(Entries[i], a) ELSE None,
                         early |-> \E j \in 1..(i - 1) : etasks[j].status = "running"]]
    /\ UNCHANGED <<epc, etx, enhanced_data>>

\* gather returns and the dict is built (lines 196-210)
EnrichReturn ==
    /\ epc = "gathering"
    /\ JoinReady(etasks)
    /\ enhanced_data' = BundleOf(GatherResults(etasks))
    /\ epc' = "done"
    /\ UNCHANGED <<etx, etasks>>

\* the transactions the call is made for
EnrichTxArgs ==
    { [hash |-> JStr(1), to |-> JStr(2)],
      [hash |-> JStr(1), to |-> None],
      [hash |-> None, to |-> JStr(2)] }

----------------------------------------------------------------------------
\* get_last_transactions (transactions.py lines 7-83). An item of the answer
\* is a record of its values, with the set of keys it lacks in `missing`.

\* item.get(key, default)
ItemGet(item, key, default) == IF key \in item.missing THEN default ELSE item[key]

\* d.get(key, default) on a JSON object
Get(d, key, default) == IF key \in DOMAIN d.v THEN d.v[key] ELSE default

\* truth value of a dict, a list or None
NonEmpty(x) ==
    \/ (x.k = "dict" /\ DOMAIN x.v # {})
    \/ (x.k = "list" /\ x.v # <<>>)

\* items[:3]
LastN == 3

\* lines 47-69 raise, and the item is skipped (lines 71-72): .get on a null
\* `from`, `to` or `fee`, or int() of a value that is no number
ItemRaises(item) ==
    \/ ItemGet(item, "from", EmptyDict).k # "dict"
    \/ ItemGet(item, "to", EmptyDict).k # "dict"
    \/ ItemGet(item, "fee", EmptyDict).k # "dict"
    \/ ~IntOk(Get(ItemGet(item, "fee", EmptyDict), "value", JInt(0)))
    \/ \E key \in {"gas_used", "gas_limit", "gas_price", "value", "base_fee_per_gas",
                   "max_fee_per_gas", "max_priority_fee_per_gas"} :
          ~IntOk(ItemGet(item, key, JInt(0)))

\* the record of lines 47-69
TxOfItem(item) ==
    LET to == ItemGet(item, "to", EmptyDict)
    IN  [hash |-> ItemGet(item, "hash", None),
         from |-> Get(ItemGet(item, "from", EmptyDict), "hash", None),
         to |-> IF NonEmpty(to) THEN Get(to, "hash", None) ELSE None,
         gasUsed |-> ItemGet(item, "gas_used", JInt(0)).v,
         gasLimit |-> ItemGet(item, "gas_limit", JInt(0)).v,
         gasPrice |-> ItemGet(item, "gas_price", JInt(0)).v,
         valueEth |-> ItemGet(item, "value", JInt(0)).v,
         feeWei |-> Get(ItemGet(item, "fee", EmptyDict), "value", JInt(0)).v,
         baseFeePerGas |-> ItemGet(item, "base_fee_per_gas", JInt(0)).v,
         maxFeePerGas |-> ItemGet(item, "max_fee_per_gas", JInt(0)).v,
         maxPriorityFeePerGas |-> ItemGet(item, "max_priority_fee_per_gas", JInt(0)).v,
         type |-> ItemGet(item, "type", 0),
         transaction_types |-> ItemGet(item, "transaction_types", <<"coin_transfer">>),
         status |-> ItemGet(item, "status", "unknown"),
         isVerifiedContract |-> Get(to, "is_verified", FALSE),
         isKnownProtocol |-> Get(to, "name", FALSE) \/ Get(to, "public_tags", FALSE),
         isScam |-> Get(to, "is_scam", FALSE),
         created_contract |-> ItemGet(item, "created_contract", FALSE),
         has_error_in_internal_transactions |->
             ItemGet(item, "has_error_in_internal_transactions", FALSE),
         profitEth |-> 0]

\* the loop of lines 45-72
RECURSIVE TxsOfItems(_)
TxsOfItems(items) ==
    IF items = <<>> THEN <<>>
    ELSE (IF ItemRaises(Head(items)) THEN <<>> ELSE <<TxOfItem(Head(items))>>)
         \o TxsOfItems(Tail(items))

\* What get_last_transactions does with an answer of the data source: mode
\* "ok" is status 200 with the JSON body `data`, "status" another status
\* (raise_for_status), "request" a connection error or a timeout. The
\* HTTPException of line 36 is raised inside the try block and leaves through
\* the handler of lines 82-83.
get_last_transactions(answer) ==
    IF answer.mode = "status" THEN [raised |-> TRUE, status_code |-> answer.code, result |-> <<>>]
    ELSE IF answer.mode = "request" THEN [raised |-> TRUE, status_code |-> 503, result |-> <<>>]
    ELSE IF ~NonEmpty(answer.data) \/ "items" \notin DOMAIN answer.data.v
         THEN [raised |-> TRUE, status_code |-> 500, result |-> <<>>]
    ELSE [raised |-> FALSE, status_code |-> 200,
          result |-> TxsOfItems(PySlice(answer.data.v.items, LastN))]

\* ---- the copy of get_last_transactions in src/back/transactions.py

\* lines 51-59: .get on a null `from` or `fee`, or on a `to` that is a
\* non-empty scalar, raises AttributeError and the item is skipped
BackItemRaises(item) ==
    \/ ItemGet(item, "from", EmptyDict).k # "dict"
    \/ Truthy(ItemGet(item, "to", None))
    \/ ItemGet(item, "fee", EmptyDict).k # "dict"

\* the record of lines 52-57
BackTxOfItem(item) ==
    LET to == ItemGet(item, "to", None)
    IN  [hash |-> ItemGet(item, "hash", None),
         from |-> Get(ItemGet(item, "from", EmptyDict), "hash", None),
         to |-> IF NonEmpty(to) THEN Get(to, "hash", None) ELSE None,
         gasFeeWei |-> Get(ItemGet(item, "fee", EmptyDict), "value", None)]

\* the loop of lines 50-61
RECURSIVE BackTxsOfItems(_)
BackTxsOfItems(items) ==
    IF items = <<>> THEN <<>>
    ELSE (IF BackItemRaises(Head(items)) THEN <<>> ELSE <<BackTxOfItem(Head(items))>>)
         \o BackTxsOfItems(Tail(items))

\* lines 29-79: as in the app copy, the HTTPException of line 38 is raised
\* inside the try block and leaves through the handler of lines 75-79
back_get_last_transactions(answer) ==
    IF answer.mode = "status" THEN [raised |-> TRUE, status_code |-> answer.code, result |-> <<>>]
    ELSE IF answer.mode = "request" THEN [raised |-> TRUE, status_code |-> 503, result |-> <<>>]
    ELSE IF ~NonEmpty(answer.data) \/ "items" \notin DOMAIN answer.data.v
         THEN [raised |-> TRUE, status_code |-> 500, result |-> <<>>]
    ELSE [raised |-> FALSE, status_code |-> 200,
          result |-> BackTxsOfItems(PySlice(answer.data.v.items, LastN))]

\* ---- the answers of the data source
Item(hash, to) ==
    [missing |-> {"created_contract", "has_error_in_internal_transactions"},
     hash |-> hash, from |-> JDict([hash |-> Addr(9, FALSE, FALSE)]), to |-> to,
     gas_used |-> JStr(21), gas_limit |-> JStr(21), gas_price |-> JStr(4),
     value |-> JStr(1000), fee |-> JDict([value |-> JStr(84)]),
     base_fee_per_gas |-> JStr(3), max_fee_per_gas |-> JStr(6),
     max_priority_fee_per_gas |-> JStr(1), type |-> 2,
     transaction_types |-> <<"coin_transfer">>, status |-> "ok"]

ToContract == JDict([hash |-> Addr(2, FALSE, FALSE), is_verified |-> FALSE])

\* two complete items; an item without hash and with gas limit 0; an item
\* that lacks the key "to"; an item whose "to" is null; an item whose gas
\* price is no number
ItemPool ==
    << Item(JStr(1), ToContract),
       [Item(JStr(2), ToContract) EXCEPT !.gas_used = JStr(90), !.gas_limit = JStr(100),
                                         !.gas_price = JStr(9), !.type = 0,
                                         !.max_priority_fee_per_gas = JStr(0)],
       [Item(None, ToContract) EXCEPT !.gas_limit = JStr(0)],
       [Item(JStr(4), EmptyDict) EXCEPT !.missing = @ \cup {"to"}, !.gas_price = JStr(7)],
       Item(JStr(5), None),
       [Item(JStr(6), ToContract) EXCEPT !.gas_price = Bad] >>

----------------------------------------------------------------------------
\* scoring.py. Scores are integers in hundredths of a point. Units of the
\* transaction fields: gasUsed and gasLimit in 10^3 gas, gasPrice and
\* maxPriorityFeePerGas in 10^6 wei, valueEth and profitEth in 10^-9 ETH (so
\* gasUsed * gasPrice is the gas cost in 10^-9 ETH), balance in 10^-3 ETH.
\* A text is a record [len, words]: its length and the keywords it contains.
ScoreScale == 100
MweiPerGwei == 1000
MilliEthPerEth == 1000

Clamp(lo, hi, x) == Max(lo, Min(hi, x))

\* mutant: the score is returned as computed
Unclamped10(x) == x

\* round(min(10, max(0, score)), 2)
Clamp10(x) == Clamp(0, 10 * ScoreScale, x)

RECURSIVE Log2Floor(_)
Log2Floor(n) == IF n <= 1 THEN 0 ELSE 1 + Log2Floor(n \div 2)

\* math.log1p(x) in hundredths, for an integer x >= 0: ln 2 * floor(log2(1 + x)),
\* a lower approximation that is 0 at 0 and non-decreasing like log1p
Log1pH(x) == 69 * Log2Floor(1 + x)

\* round(x / 10): round half to even, as Python's round on the exact value
RoundDiv10(x) ==
    LET q == x \div 10
        r == x % 10
    IN  IF r < 5 THEN q
        ELSE IF r > 5 THEN q + 1
        ELSE IF q % 2 = 0 THEN q ELSE q + 1

\* tx["gasUsed"] / tx["gasLimit"] compared with num/den
RatioGE(tx, num, den) == tx.gasUsed * den >= num * tx.gasLimit
RatioLE(tx, num, den) == tx.gasUsed * den <= num * tx.gasLimit

\* the branch of the gas-ratio chain (lines 206-213 and 39-44); ratio is 1
\* when gasLimit is 0
RatioBand(tx) ==
    IF tx.gasLimit <= 0 THEN "near"
    ELSE IF RatioGE(tx, 7, 10) /\ RatioLE(tx, 9, 10) THEN "ideal"
    ELSE IF (RatioGE(tx, 5, 10) /\ ~RatioGE(tx, 7, 10))
            \/ (~RatioLE(tx, 9, 10) /\ RatioLE(tx, 1, 1)) THEN "near"
    ELSE IF ~RatioGE(tx, 5, 10) THEN "under"
    ELSE "over"

\* lines 150-195
calculate_enhanced_economic_score(tx, address_info, token_transfers) ==
    LET gas_cost == tx.gasUsed * tx.gasPrice
        s0 == IF gas_cost > 0
              THEN Min(10 * ScoreScale, Log1pH(tx.valueEth \div gas_cost) * 2)
              ELSE 5 * ScoreScale
        balance == Get(address_info, "balance", JStr(0)).v
        s1 == IF NonEmpty(address_info)
              THEN (IF balance > 10 * MilliEthPerEth THEN s0 + 100
                    ELSE IF balance > MilliEthPerEth THEN s0 + 50
                    ELSE IF balance < 10 THEN s0 - 50
                    ELSE s0)
              ELSE s0
        recent == IF NonEmpty(token_transfers)
                  THEN Cardinality({i \in DOMAIN token_transfers.v : token_transfers.v[i].timestamp})
                  ELSE 0
        s2 == IF NonEmpty(token_transfers)
              THEN (IF recent > 10 THEN s1 + 100 ELSE IF recent < 2 THEN s1 - 50 ELSE s1)
              ELSE s1
        s3 == IF tx.gasPrice < 5 * MweiPerGwei THEN s2 + 300
              ELSE IF tx.gasPrice < 15 * MweiPerGwei THEN s2 + 200
              ELSE IF tx.gasPrice < 30 * MweiPerGwei THEN s2 + 100
              ELSE IF tx.gasPrice > 100 * MweiPerGwei THEN s2 - 200
              ELSE s2
    IN  Clamp10(s3)

\* lines 197-255
calculate_enhanced_technical_score(tx, tx_details, tx_logs) ==
    LET band == RatioBand(tx)
        s0 == 5 * ScoreScale
              + (CASE band = "ideal" -> 300 [] band = "near" -> 150
                   [] band = "under" -> -100 [] band = "over" -> -300)
        prio == tx.maxPriorityFeePerGas
        s1 == IF tx.type = 2
              THEN s0 + 200
                   + (IF prio > 0
                      THEN (IF prio < MweiPerGwei THEN 200
                            ELSE IF prio < 3 * MweiPerGwei THEN 100
                            ELSE IF prio > 10 * MweiPerGwei THEN -100
                            ELSE 0)
                      ELSE 0)
              ELSE s0
        method == Get(tx_details, "method", NoText)
        s2 == IF NonEmpty(tx_details) /\ method.len > 0 /\ ~method.is0x
              THEN (IF method.len > 20 THEN s1 + 100
                    ELSE IF method.len > 10 THEN s1 + 50
                    ELSE s1)
              ELSE s1
        s3 == IF NonEmpty(tx_logs)
              THEN (IF Len(tx_logs.v) > 5 THEN s2 + 100
                    ELSE IF Len(tx_logs.v) = 0 THEN s2 + 50
                    ELSE s2)
              ELSE s2
        s4 == IF tx.status = "ok" THEN s3 + 100
              ELSE IF tx.status = "failed" THEN s3 - 300
              ELSE s3
    IN  Clamp10(s4)

\* lines 257-323
calculate_enhanced_risk_score(tx, address_info, tx_details) ==
    LET info == NonEmpty(address_info)
        s0 == 5 * ScoreScale
        s1 == IF tx.isVerifiedContract THEN s0 + 300
              ELSE IF info /\ Get(address_info, "is_verified", FALSE) THEN s0 + 300
              ELSE s0
        s2 == IF tx.isKnownProtocol THEN s1 + 200
              ELSE IF info /\ (Get(address_info, "name", FALSE)
                               \/ Get(address_info, "public_tags", FALSE)) THEN s1 + 200
              ELSE s1
        s3 == IF tx.isScam THEN s2 - 800
              ELSE IF info /\ Get(address_info, "is_scam", FALSE) THEN s2 - 800
              ELSE s2
        reputation == Get(address_info, "reputation", "unknown")
        s4 == IF info
              THEN (IF reputation = "trusted" THEN s3 + 300
                    ELSE IF reputation = "suspicious" THEN s3 - 200
                    ELSE IF reputation = "scam" THEN s3 - 800
                    ELSE s3)
              ELSE s3
        s5 == IF tx.status = "ok" THEN s4 + 100
              ELSE IF tx.status = "failed" THEN s4 - 300
              ELSE s4
        s6 == IF tx.created_contract THEN s5 - 200 ELSE s5
        s7 == IF tx.has_error_in_internal_transactions THEN s6 - 300 ELSE s6
        tx_count == Get(address_info, "transactions_count", 0)
        s8 == IF info
              THEN (IF tx_count > 1000 THEN s7 + 100
                    ELSE IF tx_count < 5 THEN s7 - 100
                    ELSE s7)
              ELSE s7
        s9 == s8 - (IF Truthy(tx.to) /\ tx.to.has0x000 THEN 500 ELSE 0)
                 - (IF Truthy(tx.to) /\ tx.to.starts0x00000000000 THEN 300 ELSE 0)
    IN  Clamp10(s9)

StableSymbols == {"USDC", "USDT", "DAI", "BUSD", "FRAX"}
DefiSymbols == {"UNI", "AAVE", "COMP", "MKR", "CRV", "SUSHI"}

\* type_scores.get(tx_type, 5.0) (lines 353-371)
TypeScore(tx) ==
    LET tx_type == IF tx.transaction_types # <<>> THEN tx.transaction_types[1]
                   ELSE "coin_transfer"
    IN  CASE tx_type \in {"stake", "lp_deposit", "yield_farming"} -> 900
          [] tx_type = "defi_interaction" -> 800
          [] tx_type = "swap" -> 700
          [] tx_type \in {"coin_transfer", "token_transfer", "contract_interaction"} -> 600
          [] tx_type \in {"nft_mint", "nft_transfer"} -> 500
          [] tx_type = "speculative" -> 300
          [] tx_type = "gambling" -> 200
          [] OTHER -> 500

\* lines 325-396
calculate_enhanced_strategic_score(tx, token_transfers, interpreter_data) ==
    LET words == Get(interpreter_data, "classification", NoText).words
        confidence == Get(interpreter_data, "confidence", 0)
        s0 == 5 * ScoreScale
        s1 == IF NonEmpty(interpreter_data)
              THEN s0
                   + (IF words \cap {"defi", "swap"} # {} THEN 200
                      ELSE IF words \cap {"staking", "yield"} # {} THEN 300
                      ELSE IF "nft" \in words THEN 100
                      ELSE IF words \cap {"gambling", "casino"} # {} THEN -200
                      ELSE IF words \cap {"scam", "suspicious"} # {} THEN -400
                      ELSE 0)
                   + (IF confidence > 80 THEN 100 ELSE IF confidence < 30 THEN -50 ELSE 0)
              ELSE s0
        s2 == Max(s1, TypeScore(tx))
        first10 == IF NonEmpty(token_transfers) THEN PySlice(token_transfers.v, 10) ELSE <<>>
        stable == Cardinality({i \in DOMAIN first10 : first10[i].symbol \in StableSymbols})
        defi == Cardinality({i \in DOMAIN first10 : first10[i].symbol \in DefiSymbols})
        speculative == Len(first10) - stable - defi
        s3 == s2 + (IF defi > 0 THEN Min(200, defi * 50) ELSE 0)
                 + (IF stable > 0 THEN Min(100, stable * 20) ELSE 0)
                 - (IF speculative > 3 THEN Min(200, (speculative - 3) * 50) ELSE 0)
    IN  Clamp10(s3)

\* lines 398-459. len(token_transfers) raises TypeError when the bundle holds
\* None for it.
score_transaction_enhanced(tx, api_data) ==
    LET address_info == api_data.address_info
        token_transfers == api_data.token_transfers
        tx_details == api_data.transaction_details
        interpreter_data == api_data.interpreter_data
        tx_logs == api_data.transaction_logs
        economic == calculate_enhanced_economic_score(tx, address_info, token_transfers)
        technical == calculate_enhanced_technical_score(tx, tx_details, tx_logs)
        risk == calculate_enhanced_risk_score(tx, address_info, tx_details)
        strategic == calculate_enhanced_strategic_score(tx, token_transfers, interpreter_data)
    IN  [raised |-> token_transfers.k # "list",
         tx_hash |-> tx.hash,
         scores |-> [economic |-> economic, technical |-> technical,
                     risk_security |-> risk, strategic |-> strategic],
         final_score |-> RoundDiv10(economic * 3 + technical * 2 + risk * 3 + strategic * 2),
         final_score_no_risk |-> RoundDiv10(economic * 4 + technical * 3 + strategic * 3),
         risk_level |-> IF risk < 3 * ScoreScale THEN "high"
                        ELSE IF risk < 6 * ScoreScale THEN "medium" ELSE "low"]

\* TransactionScorer (lines 9-33)
economic_efficiency_score(tx) ==
    LET gas_cost == tx.gasUsed * tx.gasPrice
        roi_h == IF tx.valueEth > 0 THEN (200 * tx.profitEth) \div tx.valueEth ELSE 0
        gas_efficiency == IF gas_cost > 0 THEN tx.valueEth \div gas_cost ELSE 0
        roi_score == Clamp(0, 10 * ScoreScale, 5 * ScoreScale + roi_h)
        gas_score == Clamp(0, 10 * ScoreScale, Log1pH(gas_efficiency))
    IN  RoundDiv10(roi_score * 6 + gas_score * 4)

\* lines 35-55
technical_efficiency_score(tx) ==
    LET band == RatioBand(tx)
        efficiency_score == IF band = "ideal" THEN 1000
                            ELSE IF band = "near" THEN 700 ELSE 400
        eip_1559_bonus == IF tx.gasPrice < 20 * MweiPerGwei THEN 200
                          ELSE IF tx.gasPrice < 50 * MweiPerGwei THEN 100 ELSE 0
        type_bonus == IF tx.type = 2 THEN 100 ELSE 0
    IN  Min(10 * ScoreScale, efficiency_score + eip_1559_bonus + type_bonus)

\* lines 57-96
risk_security_score(tx) ==
    LET s == 5 * ScoreScale
             + (IF tx.isVerifiedContract THEN 300 ELSE 0)
             + (IF tx.isKnownProtocol THEN 200 ELSE 0)
             - (IF tx.isScam THEN 800 ELSE 0)
             - (IF Truthy(tx.to) /\ tx.to.has0x000 THEN 500 ELSE 0)
             - (IF Truthy(tx.to) /\ tx.to.starts0x00000000000 THEN 300 ELSE 0)
             + (IF tx.status = "ok" THEN 100 ELSE IF tx.status = "failed" THEN -200 ELSE 0)
             - (IF tx.created_contract THEN 100 ELSE 0)
             - (IF tx.has_error_in_internal_transactions THEN 200 ELSE 0)
    IN  Max(0, Min(10 * ScoreScale, s))

\* lines 98-115
strategic_alignment_score(tx) ==
    LET tx_type == IF tx.transaction_types # <<>> THEN tx.transaction_types[1]
                   ELSE "coin_transfer"
    IN  CASE tx_type \in {"stake", "lp_deposit", "yield_farming"} -> 900
          [] tx_type \in {"swap", "coin_transfer", "defi_interaction"} -> 700
          [] tx_type \in {"nft_mint", "nft_transfer"} -> 500
          [] tx_type \in {"contract_interaction", "token_transfer"} -> 600
          [] tx_type \in {"speculative", "gambling"} -> 300
          [] OTHER -> 500

\* lines 117-138
score_transaction(tx) ==
    LET economic == economic_efficiency_score(tx)
        technical == technical_efficiency_score(tx)
        risk == risk_security_score(tx)
        strategic == strategic_alignment_score(tx)
    IN  [raised |-> FALSE,
         tx_hash |-> tx.hash,
         scores |-> [economic |-> economic, technical |-> technical,
                     risk_security |-> risk, strategic |-> strategic],
         final_score |-> RoundDiv10(economic * 3 + technical * 2 + risk * 3 + strategic * 2),
         final_score_no_risk |-> RoundDiv10(economic * 4 + technical * 3 + strategic * 3),
         risk_level |-> "none"]

\* ---- arguments of the scorers: transactions as get_last_transactions builds
\* them (transactions.py lines 47-69) and bundles as
\* get_comprehensive_transaction_data returns them (lines 204-210)

\* gasUsed, gasLimit, gasPrice, valueEth, profitEth
GasProfiles ==
    { [gasUsed |-> 21, gasLimit |-> 21, gasPrice |-> 2000,
       valueEth |-> 1000000000, profitEth |-> 0],
      [gasUsed |-> 0, gasLimit |-> 0, gasPrice |-> 0,
       valueEth |-> 0, profitEth |-> 0],
      [gasUsed |-> 100, gasLimit |-> 400, gasPrice |-> 150000,
       valueEth |-> 0, profitEth |-> 0],
      [gasUsed |-> 80, gasLimit |-> 100, gasPrice |-> 20000,
       valueEth |-> 3000000, profitEth |-> -9000000],
      [gasUsed |-> 120, gasLimit |-> 100, gasPrice |-> 40000,
       valueEth |-> 3000000, profitEth |-> 9000000] }

\* type, maxPriorityFeePerGas
FeeProfiles ==
    { [type |-> 0, maxPriorityFeePerGas |-> 0],
      [type |-> 2, maxPriorityFeePerGas |-> 500],
      [type |-> 2, maxPriorityFeePerGas |-> 12000] }

\* the recipient address
PlainTo == Addr(2, FALSE, FALSE)
ZeroTo == Addr(3, TRUE, TRUE)

\* to, status and the flags
RiskProfiles ==
    { [to |-> PlainTo, status |-> "ok", isVerifiedContract |-> TRUE,
       isKnownProtocol |-> TRUE, isScam |-> FALSE, created_contract |-> FALSE,
       has_error_in_internal_transactions |-> FALSE],
      [to |-> ZeroTo, status |-> "failed", isVerifiedContract |-> FALSE,
       isKnownProtocol |-> FALSE, isScam |-> TRUE, created_contract |-> TRUE,
       has_error_in_internal_transactions |-> TRUE],
      [to |-> PlainTo, status |-> "unknown", isVerifiedContract |-> FALSE,
       isKnownProtocol |-> FALSE, isScam |-> FALSE, created_contract |-> FALSE,
       has_error_in_internal_transactions |-> FALSE],
      [to |-> None, status |-> "ok", isVerifiedContract |-> FALSE,
       isKnownProtocol |-> FALSE, isScam |-> FALSE, created_contract |-> FALSE,
       has_error_in_internal_transactions |-> FALSE] }

TypeProfiles == { <<>>, <<"stake">>, <<"gambling", "swap">>, <<"bridge">> }

ScoreTx(g, f, r, t) ==
    [hash |-> JStr(1), from |-> JStr(9), to |-> r.to,
     gasUsed |-> g.gasUsed, gasLimit |-> g.gasLimit, gasPrice |-> g.gasPrice,
     valueEth |-> g.valueEth, profitEth |-> g.profitEth,
     feeWei |-> g.gasUsed * g.gasPrice, baseFeePerGas |-> 0,
     maxFeePerGas |-> g.gasPrice,
     maxPriorityFeePerGas |-> f.maxPriorityFeePerGas, type |-> f.type,
     transaction_types |-> t, status |-> r.status,
     isVerifiedContract |-> r.isVerifiedContract,
     isKnownProtocol |-> r.isKnownProtocol, isScam |-> r.isScam,
     created_contract |-> r.created_contract,
     has_error_in_internal_transactions |-> r.has_error_in_internal_transactions]

ScoreTxs ==
    { ScoreTx(g, f, r, t) :
        g \in GasProfiles, f \in FeeProfiles, r \in RiskProfiles, t \in TypeProfiles }

Rep(x, n) == [i \in 1..n |-> x]

\* address_info: None for a transaction without recipient, {} after a failed
\* fetch, or the address object
AddressInfos ==
    { None, EmptyDict,
      JDict([balance |-> JStr(20000), is_verified |-> TRUE, name |-> TRUE,
             reputation |-> "trusted", transactions_count |-> 5000]),
      JDict([is_scam |-> TRUE, reputation |-> "scam", is_verified |-> FALSE]) }

\* token_transfers: None, [] or the items, each with its timestamp's truth
\* value and its token symbol
TokenTransferLists ==
    { None, EmptyList,
      JList(Rep([timestamp |-> TRUE, symbol |-> "UNI"], 6)
            \o Rep([timestamp |-> TRUE, symbol |-> "USDC"], 5)),
      JList(Rep([timestamp |-> FALSE, symbol |-> ""], 7)) }

TxDetails ==
    { None,
      JDict([method |-> Text(24, {"swap"})]),
      JDict([method |-> Text0x]) }

InterpreterData ==
    { None,
      JDict([classification |-> Text(12, {"staking", "yield"}), confidence |-> 90]),
      JDict([classification |-> Text(15, {"suspicious"})]) }

TxLogs == { EmptyList, JList(Rep(0, 6)) }

ScoreBundles ==
    { [address_info |-> a, token_transfers |-> t, transaction_details |-> d,
       interpreter_data |-> n, transaction_logs |-> l] :
        a \in AddressInfos, t \in TokenTransferLists, d \in TxDetails,
        n \in InterpreterData, l \in TxLogs }

NoScore ==
    [raised |-> FALSE, tx_hash |-> None,
     scores |-> [economic |-> 0, technical |-> 0, risk_security |-> 0, strategic |-> 0],
     final_score |-> 0, final_score_no_risk |-> 0, risk_level |-> "none"]

NoTx == ScoreTx(CHOOSE g \in GasProfiles : g.gasUsed = 0,
                CHOOSE f \in FeeProfiles : f.type = 0,
                CHOOSE r \in RiskProfiles : r.to = None, <<>>)

\* __init__ (lines 6-7 and 147-148): the object holds the lower-cased wallet
NewScorer == [wallet |-> "0xabc"]

\* no call has been made on the scorer objects
ScorersFresh ==
    /\ enhanced_scorer = NewScorer
    /\ scorer = NewScorer
    /\ calls = <<>>

ScoreIdle ==
    /\ spc = "idle"
    /\ s_tx = NoTx
    /\ s_api = NoBundle
    /\ s_enhanced = NoScore
    /\ s_legacy = NoScore
    /\ ScorersFresh

----------------------------------------------------------------------------
\* score_transaction_enhanced_v2(tx, enhanced_data, cohort_stats=...), the
\* scorer that routes.py line 43 calls. scoring.py does not hold it; it is
\* modelled on the design of the cohort-aware scorer: percentile estimator,
\* the four dimensional scorers, aggregator. Sub-scores and final scores in
\* hundredths of a point (0..100 points), ranks, ratios and confidence in
\* 1/RankScale; prices in 10^6 wei as in the cohort sample, whose percentiles are
\* in 1/PctlScale of that unit.
RankScale == 10000
PointsMax == 100 * ScoreScale

\* an entry of the bundle counts as data when it is a non-empty map or list
Opt(d, key, default) == IF d.k = "dict" /\ key \in DOMAIN d.v THEN d.v[key] ELSE default

SafeDiv(a, b) == IF b > 0 THEN a \div b ELSE 0

\* mutant: the first segment climbs to 0.8, above the start of the second
PercentileRankSteep(x, pm) ==
    IF 50 \notin DOMAIN pm THEN RankScale \div 2
    ELSE LET X == 100 * x
             p50 == pm[50]
             p80 == IF 80 \in DOMAIN pm THEN pm[80] ELSE (12 * p50) \div 10
             p95 == IF 95 \in DOMAIN pm THEN pm[95] ELSE (13 * p80) \div 10
         IN  IF X <= p50 THEN 3000 + SafeDiv(5000 * X, Max(p50, 100))
             ELSE IF X <= p80 THEN 5000 + SafeDiv(3000 * (X - p50), p80 - p50)
             ELSE IF X <= p95 THEN 8000 + SafeDiv(1500 * (X - p80), p95 - p80)
             ELSE 9800

\* rank of x against the thresholds of a percentile map (empty, or 50/80/95)
PercentileRank(x, pm) ==
    IF 50 \notin DOMAIN pm THEN RankScale \div 2
    ELSE LET X == 100 * x
             p50 == pm[50]
             p80 == IF 80 \in DOMAIN pm THEN pm[80] ELSE (12 * p50) \div 10
             p95 == IF 95 \in DOMAIN pm THEN pm[95] ELSE (13 * p80) \div 10
         IN  IF X <= p50 THEN 3000 + SafeDiv(2000 * X, Max(p50, 100))
             ELSE IF X <= p80 THEN 5000 + SafeDiv(3000 * (X - p50), p80 - p50)
             ELSE IF X <= p95 THEN 8000 + SafeDiv(1500 * (X - p80), p95 - p80)
             ELSE 9800

\* fallback ranks without percentiles
FallbackPriceRank(tx) ==
    LET floor_price == Max(tx.baseFeePerGas + tx.maxPriorityFeePerGas, 1)
    IN  IF 100 * tx.gasPrice <= 102 * floor_price THEN 3500
        ELSE IF 100 * tx.gasPrice <= 110 * floor_price THEN 5500
        ELSE 8000

FallbackTipRank(tx) ==
    IF tx.maxPriorityFeePerGas <= 1 THEN 3500
    ELSE IF tx.maxPriorityFeePerGas <= 5 * MweiPerGwei THEN 5500
    ELSE 8000

OverpayRatio(tx) ==
    IF tx.gasPrice > 0 /\ tx.baseFeePerGas > 0
    THEN Clamp(0, RankScale,
               (RankScale * (tx.gasPrice - tx.baseFeePerGas - tx.maxPriorityFeePerGas))
                   \div tx.gasPrice)
    ELSE 0

economic_v2(tx, cs) ==
    LET rankPrice == IF DOMAIN cs.pctl.eGP # {}
                     THEN PercentileRank(tx.gasPrice, cs.pctl.eGP)
                     ELSE FallbackPriceRank(tx)
        rankTip == IF DOMAIN cs.pctl.tip # {}
                   THEN PercentileRank(tx.maxPriorityFeePerGas, cs.pctl.tip)
                   ELSE FallbackTipRank(tx)
    IN  Clamp(0, PointsMax,
              PointsMax - (70 * rankPrice + 20 * rankTip + 10 * OverpayRatio(tx)) \div 100)

\* no token transfers, no decoded method, a plain coin transfer
SimpleTransfer(tx, api_data) ==
    /\ ~NonEmpty(api_data.token_transfers)
    /\ Opt(api_data.transaction_details, "method", NoText).len = 0
    /\ tx.transaction_types \in {<<>>, <<"coin_transfer">>}

technical_v2(tx, api_data) ==
    LET ratio == IF tx.gasLimit > 0 THEN (RankScale * tx.gasUsed) \div tx.gasLimit ELSE 0
        delta == IF ratio = 0 THEN -40 * ScoreScale
                 ELSE IF ratio < 5000 THEN -((60 * (5000 - ratio)) \div 100)
                 ELSE IF ratio > 9800
                      THEN (IF SimpleTransfer(tx, api_data) THEN 2 * ScoreScale
                            ELSE -((100 * (ratio - 9800)) \div 100))
                 ELSE IF ratio >= 7000 THEN (5 * (ratio - 7000)) \div 28
                 ELSE 0
    IN  Clamp(0, PointsMax, PointsMax + delta)

risk_v2(tx, api_data) ==
    LET info == api_data.address_info
        is_contract == Opt(info, "is_contract", FALSE)
        verified == tx.isVerifiedContract \/ Opt(info, "is_verified", FALSE)
        words == Opt(api_data.interpreter_data, "risk_level", NoText).words
        created == Truthy(Opt(info, "creation_block_number", None))
    IN  Clamp(0, PointsMax,
              PointsMax
              - (IF is_contract /\ ~verified THEN 15 * ScoreScale ELSE 0)
              - (IF "high" \in words THEN 35 * ScoreScale
                 ELSE IF "medium" \in words THEN 20 * ScoreScale
                 ELSE IF "low" \in words THEN 5 * ScoreScale
                 ELSE 0)
              - (IF is_contract /\ created THEN 10 * ScoreScale ELSE 0))

strategic_v2(tx, api_data) ==
    LET words == Opt(api_data.transaction_details, "method", NoText).words
    IN  IF "swap" \in words THEN 75 * ScoreScale
        ELSE IF "approve" \in words THEN 60 * ScoreScale
        ELSE IF NonEmpty(api_data.token_transfers) THEN 70 * ScoreScale
        ELSE 85 * ScoreScale

\* mutant: the deductions are taken without the floor
confidence_v2_unfloored(tx, api_data, cs) ==
    LET verdict == NonEmpty(api_data.interpreter_data)
        present == Cardinality({n \in {"gasPrice", "maxPriorityFeePerGas", "baseFeePerGas",
                                       "gasUsed", "gasLimit"} : tx[n] > 0})
                   + (IF verdict THEN 1 ELSE 0)
        base == 7000 + (3000 * present) \div (IF verdict THEN 6 ELSE 5)
    IN  base - (IF DOMAIN cs.pctl.eGP = {} THEN 500 ELSE 0)
             - (IF DOMAIN cs.pctl.tip = {} THEN 500 ELSE 0)

confidence_v2(tx, api_data, cs) ==
    LET verdict == NonEmpty(api_data.interpreter_data)
        present == Cardinality({n \in {"gasPrice", "maxPriorityFeePerGas", "baseFeePerGas",
                                       "gasUsed", "gasLimit"} : tx[n] > 0})
                   + (IF verdict THEN 1 ELSE 0)
        base == 7000 + (3000 * present) \div (IF verdict THEN 6 ELSE 5)
    IN  Max(7000, base - (IF DOMAIN cs.pctl.eGP = {} THEN 500 ELSE 0)
                       - (IF DOMAIN cs.pctl.tip = {} THEN 500 ELSE 0))

score_transaction_enhanced_v2(tx, api_data, cs) ==
    LET economic == economic_v2(tx, cs)
        technical == technical_v2(tx, api_data)
        risk == risk_v2(tx, api_data)
        strategic == strategic_v2(tx, api_data)
        no_risk == Clamp(0, PointsMax, (35 * economic + 25 * technical + 10 * strategic) \div 100)
        blended == Clamp(0, PointsMax, no_risk + (30 * risk) \div 100)
        confidence == confidence_v2(tx, api_data, cs)
    IN  [raised |-> FALSE,
         tx_hash |-> tx.hash,
         scores |-> [economic |-> economic, technical |-> technical,
                     risk_security |-> risk, strategic |-> strategic],
         final_score |-> Clamp(0, PointsMax, (blended * confidence) \div RankScale),
         final_score_no_risk |-> no_risk,
         risk_level |-> IF risk < 40 * ScoreScale THEN "high"
                        ELSE IF risk < 70 * ScoreScale THEN "medium" ELSE "low",
         confidence |-> confidence,
         interpreter |-> api_data.interpreter_data,
         enhanced_data |-> api_data]

----------------------------------------------------------------------------
\* get_cohort_stats: the data source's answers

\* The answers are runs of consecutive entries of two fixed streams, which hold
\* every kind of entry the builder tells apart.
Windows(pool, n) ==
    {SubSeq(pool, w[1], w[1] + w[2] - 1) :
        w \in {x \in (1..Len(pool)) \X (0..n) : x[1] + x[2] - 1 <= Len(pool)}}

\* Block entries of a listing answer: number, height, block.number, base_fee_per_gas
BlockPool ==
    << [number |-> Bad, height |-> JInt(13), block_number |-> None, base_fee_per_gas |-> JStr(9)],
       [number |-> None, height |-> JInt(12), block_number |-> None, base_fee_per_gas |-> None],
       [number |-> JStr(11), height |-> None, block_number |-> None, base_fee_per_gas |-> JStr(7)],
       [number |-> JInt(10), height |-> None, block_number |-> None, base_fee_per_gas |-> JInt(5)] >>

\* Transactions of a per-block answer: gas_price, max_fee_per_gas, max_priority_fee_per_gas
TxPool ==
    << [gas_price |-> JStr(3), max_fee_per_gas |-> JStr(4), max_priority_fee_per_gas |-> JStr(1)],
       [gas_price |-> JStr(0), max_fee_per_gas |-> None, max_priority_fee_per_gas |-> JStr(0)],
       [gas_price |-> None, max_fee_per_gas |-> JStr(8), max_priority_fee_per_gas |-> None],
       [gas_price |-> Bad, max_fee_per_gas |-> None, max_priority_fee_per_gas |-> JStr(2)],
       [gas_price |-> JInt(6), max_fee_per_gas |-> JInt(9), max_priority_fee_per_gas |-> Bad],
       [gas_price |-> JInt(0), max_fee_per_gas |-> None, max_priority_fee_per_gas |-> JInt(5)] >>

\* get_recent_blocks returns the answer's items, or [] on any failure
ListingAnswers == Windows(BlockPool, MaxListed)

\* get_block_transactions returns the answer's items, or [] on any failure
BlockAnswers == Windows(TxPool, MaxTxPerBlock)

----------------------------------------------------------------------------
\* get_cohort_stats: the block loop (lines 251-264)

BlockN(b) == PyOr(PyOr(b.number, b.height), b.block_number)

RECURSIVE BlockNumbersOf(_)
BlockNumbersOf(rb) ==
    IF rb = <<>> THEN <<>>
    ELSE LET n == BlockN(Head(rb))
         IN  (IF IntOk(n) THEN <<n.v>> ELSE <<>>) \o BlockNumbersOf(Tail(rb))

RECURSIVE BaseFeesOf(_)
BaseFeesOf(rb) ==
    IF rb = <<>> THEN <<>>
    ELSE LET bf == Head(rb).base_fee_per_gas
         IN  (IF IntOk(bf) THEN <<bf.v>> ELSE <<>>) \o BaseFeesOf(Tail(rb))

\* the result loop (lines 269-274): extend with each list, stop once tx_cap is reached
RECURSIVE ConsumeResults(_, _, _)
ConsumeResults(results, acc, cap) ==
    IF results = <<>> THEN acc
    ELSE LET acc2 == acc \o Head(results)
         IN  IF Len(acc2) >= cap THEN acc2
             ELSE ConsumeResults(Tail(results), acc2, cap)

\* mutant: the truncation of line 274 is left out
CohortSampleNoSlice(results, cap) == ConsumeResults(results, <<>>, cap)

CohortSample(results, cap) == PySlice(ConsumeResults(results, <<>>, cap), cap)

\* the value loop (lines 277-286)
TxGp(t) == PyOr(t.gas_price, t.max_fee_per_gas)

RECURSIVE GasPricesOf(_)
GasPricesOf(ts) ==
    IF ts = <<>> THEN <<>>
    ELSE LET gp == TxGp(Head(ts))
         IN  (IF IntOk(gp) THEN <<gp.v>> ELSE <<>>) \o GasPricesOf(Tail(ts))

RECURSIVE TipsOf(_)
TipsOf(ts) ==
    IF ts = <<>> THEN <<>>
    ELSE LET gp == TxGp(Head(ts))
             mp == Head(ts).max_priority_fee_per_gas
             \* int(gp) raised: the except clause skips the rest of this transaction
             skipped == gp.k = "bad"
         IN  (IF ~skipped /\ IntOk(mp) THEN <<mp.v>> ELSE <<>>) \o TipsOf(Tail(ts))

----------------------------------------------------------------------------
\* pctls (lines 288-296). Percentile values are exact in hundredths: with
\* k = (n-1)*v/100, k - floor(k) = ((n-1)*v mod 100)/100.
PctlScale == 100

\* mutant: the values are interpolated in arrival order
unsortedVals(vals) == vals

\* sorted(vals): position i holds the value with fewer than i values below it
\* and at least i values not above it
sorted(vals) ==
    [i \in 1..Len(vals) |->
        CHOOSE v \in {vals[j] : j \in DOMAIN vals} :
            /\ Cardinality({j \in DOMAIN vals : vals[j] < v}) < i
            /\ Cardinality({j \in DOMAIN vals : vals[j] <= v}) >= i]

\* mutant: the value at floor(k), without interpolation
PctlPFloor(vals2, v) == PctlScale * vals2[((Len(vals2) - 1) * v) \div 100 + 1]

\* p(v) of pctls, times PctlScale; vals2 is sorted and non-empty
PctlP(vals2, v) ==
    LET k100 == (Len(vals2) - 1) * v
        f == k100 \div 100
        c == IF k100 % 100 = 0 THEN f ELSE f + 1
    IN  IF f = c THEN PctlScale * vals2[f + 1]
        ELSE PctlScale * vals2[f + 1] + (vals2[c + 1] - vals2[f + 1]) * (k100 - 100 * f)

Pctiles == {50, 80, 95}

EmptyMap == [q \in {} |-> 0]

RECURSIVE AllZero(_)
AllZero(vals) == vals = <<>> \/ (Head(vals) = 0 /\ AllZero(Tail(vals)))

\* mutant: a sample that sums to zero is taken for an empty one
pctlsFalsySum(vals) ==
    IF AllZero(vals) THEN EmptyMap
    ELSE LET vals2 == sorted(vals) IN [q \in Pctiles |-> PctlP(vals2, q)]

\* mutant: an empty sample yields zero-valued percentiles
pctlsDefaulted(vals) ==
    IF vals = <<>> THEN [q \in Pctiles |-> 0]
    ELSE LET vals2 == sorted(vals) IN [q \in Pctiles |-> PctlP(vals2, q)]

pctls(vals) ==
    IF vals = <<>> THEN EmptyMap
    ELSE LET vals2 == sorted(vals) IN [q \in Pctiles |-> PctlP(vals2, q)]

\* mutant: the base fee appended last is the one returned
CohortStatsLastFee(eGP, tip, fees) ==
    [pctl |-> [eGP |-> pctls(eGP), tip |-> pctls(tip)],
     base_fee_last |-> IF fees # <<>> THEN JInt(fees[Len(fees)]) ELSE None]

\* the returned dict (lines 298-301)
CohortStats(eGP, tip, fees) ==
    [pctl |-> [eGP |-> pctls(eGP), tip |-> pctls(tip)],
     base_fee_last |-> IF fees # <<>> THEN JInt(fees[1]) ELSE None]

----------------------------------------------------------------------------
\* get_cohort_stats as a process

\* line 267-268: one get_block_transactions call per block number, all handed to
\* asyncio.gather together
DispatchAll(numbers) ==
    [i \in 1..Len(numbers) |->
        [status |-> "running", block |-> numbers[i], ret |-> <<>>, at |-> 0]]

\* lines 269-301 on the gathered results
CohortFinish(results) ==
    /\ txs' = CohortSample(results, tx_cap)
    /\ eGP_list' = GasPricesOf(txs')
    /\ tip_list' = TipsOf(txs')
    /\ cohort' = CohortStats(eGP_list', tip_list', base_fees')
    /\ cpc' = "done"

\* get_recent_blocks returns (lines 249-268)
RecentBlocksReturn ==
    /\ cpc = "listing"
    /\ \E ok \in BOOLEAN :
       \E rb \in (IF ok THEN ListingAnswers ELSE {<<>>}) :
          /\ listing' = (IF ok THEN "ok" ELSE "failed")
          /\ recent_blocks' = rb
          /\ block_numbers' = BlockNumbersOf(rb)
          /\ base_fees' = BaseFeesOf(rb)
          /\ LET started == PySlice(BlockNumbersOf(rb), blocks)
             IN  IF started = <<>>
                 THEN /\ tasks' = <<>>
                      /\ CohortFinish(<<>>)
                 ELSE /\ tasks' = DispatchAll(started)
                      /\ cpc' = "gathering"
                      /\ UNCHANGED <<txs, eGP_list, tip_list, cohort>>
    /\ UNCHANGED <<blocks, tx_cap>>

\* one get_block_transactions call returns (lines 229-244): the items, or [] on
\* a failure, a timeout or a status other than 200
BlockFetchReturn(i) ==
    /\ cpc = "gathering"
    /\ i \in DOMAIN tasks
    /\ tasks[i].status = "running"
    /\ \E ok \in BOOLEAN :
       \E items \in (IF ok THEN BlockAnswers ELSE {<<>>}) :
          tasks' = [tasks EXCEPT ![i] = [status |-> IF ok THEN "ok" ELSE "failed",
                                         block |-> @.block, ret |-> items,
                                         at |-> 1 + Cardinality({j \in DOMAIN tasks :
                                                     tasks[j].status # "running"})]]
    /\ UNCHANGED <<cpc, blocks, tx_cap, recent_blocks, block_numbers, base_fees,
                   txs, eGP_list, tip_list, cohort, listing>>

\* gather returns and the builder runs to its return (lines 268-301)
GatherJoin ==
    /\ cpc = "gathering"
    /\ JoinReady(tasks)
    /\ UNCHANGED <<base_fees>>
    /\ CohortFinish(GatherResults(tasks))
    /\ UNCHANGED <<blocks, tx_cap, recent_blocks, block_numbers, tasks, listing>>

\* no request to the /scores route is being served
RouteIdle ==
    /\ rpc = "idle"
    /\ transactions = <<>>
    /\ cohort_stats = CohortStats(<<>>, <<>>, <<>>)
    /\ r_i = 0
    /\ r_tasks = <<>>
    /\ scored_transactions = <<>>
    /\ r_status = 200
    /\ cohort_builds = 0

\* get_last_transactions has not returned
NotReturned == [raised |-> FALSE, status_code |-> 0, result |-> <<>>]

\* no listing call is running on its own
ListIdle ==
    /\ l_answer = [mode |-> "request", data |-> EmptyDict, code |-> 0]
    /\ l_ret = NotReturned
    /\ l_old_ret = NotReturned

\* nothing to send yet
NoMessage == [kind |-> "none", explanations |-> <<>>, detail |-> ""]

\* no websocket connection is open
WsIdle ==
    /\ wpc = "idle"
    /\ w_client = "connected"
    /\ w_req = <<>>
    /\ w_explanations = <<>>
    /\ w_result = NoMessage
    /\ w_sent = <<>>
    /\ w_closed = FALSE
    /\ ai_result = NoMessage

\* no cohort build is running
CohortIdle ==
    /\ cpc = "idle"
    /\ blocks = 0
    /\ tx_cap = 0
    /\ recent_blocks = <<>>
    /\ block_numbers = <<>>
    /\ base_fees = <<>>
    /\ tasks = <<>>
    /\ txs = <<>>
    /\ eGP_list = <<>>
    /\ tip_list = <<>>
    /\ cohort = CohortStats(<<>>, <<>>, <<>>)
    /\ listing = "pending"

CohortInit ==
    /\ cpc = "listing"
    /\ blocks \in 1..MaxBlocks
    /\ tx_cap \in 1..MaxTxCap
    /\ recent_blocks = <<>>
    /\ block_numbers = <<>>
    /\ base_fees = <<>>
    /\ tasks = <<>>
    /\ txs = <<>>
    /\ eGP_list = <<>>
    /\ tip_list = <<>>
    /\ cohort = CohortStats(<<>>, <<>>, <<>>)
    /\ listing = "pending"
    /\ EnrichIdle
    /\ ScoreIdle
    /\ RouteIdle
    /\ ListIdle
    /\ WsIdle

CohortNext ==
    \/ RecentBlocksReturn /\ UNCHANGED <<enrichVars, scoreVars, routeVars, listVars, wsVars>>
    \/ \E i \in DOMAIN tasks : BlockFetchReturn(i) /\ UNCHANGED <<enrichVars, scoreVars, routeVars, listVars, wsVars>>
    \/ GatherJoin /\ UNCHANGED <<enrichVars, scoreVars, routeVars, listVars, wsVars>>

SpecCohort == CohortInit /\ [][CohortNext]_vars

\* Every call to the data source carries a 30 s timeout and the event loop runs
\* every ready coroutine, so a step that stays possible is taken.
SpecCohortFair == SpecCohort /\ WF_vars(CohortNext)

----------------------------------------------------------------------------
\* Properties of the cohort builder

RECURSIVE SumLen(_)
SumLen(ss) == IF ss = <<>> THEN 0 ELSE Len(Head(ss)) + SumLen(Tail(ss))

\* the transactions of the calls that succeeded, in the order of the block list
RECURSIVE ConcatOk(_)
ConcatOk(ts) ==
    IF ts = <<>> THEN <<>>
    ELSE (IF Head(ts).status = "ok" THEN Head(ts).ret ELSE <<>>) \o ConcatOk(Tail(ts))

AllTasksFailed == \A i \in DOMAIN tasks : tasks[i].status = "failed"

\* C3: for a positive tx_cap the sample the percentiles are computed from holds
\* at most tx_cap transactions, and so do the gas-price list and the tip list.
C3_SampleWithinCap ==
    (cpc = "done" /\ tx_cap > 0) =>
        /\ Len(txs) <= tx_cap
        /\ Len(eGP_list) <= tx_cap
        /\ Len(tip_list) <= tx_cap

\* the blocks returned more than tx_cap transactions and the sample was cut to tx_cap
C3_Witness ==
    /\ cpc = "done"
    /\ SumLen(GatherResults(tasks)) > tx_cap
    /\ Len(ConsumeResults(GatherResults(tasks), <<>>, tx_cap)) > tx_cap
    /\ Len(txs) = tx_cap
    /\ Len(eGP_list) = tx_cap

\* C4: every non-empty percentile map of the returned CohortStats is
\* non-decreasing, p50 <= p80 <= p95.
C4_PercentilesMonotone ==
    cpc = "done" =>
        \A m \in {cohort.pctl.eGP, cohort.pctl.tip} :
            DOMAIN m # {} => (m[50] <= m[80] /\ m[80] <= m[95])

\* a sample that arrived in descending order, with distinct percentiles
C4_Witness ==
    /\ cpc = "done"
    /\ Len(eGP_list) >= 2
    /\ eGP_list[1] > eGP_list[2]
    /\ cohort.pctl.eGP[50] < cohort.pctl.eGP[80]
    /\ cohort.pctl.eGP[80] < cohort.pctl.eGP[95]

\* C5: a metric's percentile map is empty exactly when its value list is empty,
\* and a non-empty list, all zeros included, yields the entries 50, 80 and 95.
C5_EmptyMapIffNoSample ==
    cpc = "done" =>
        /\ (DOMAIN cohort.pctl.eGP = {}) <=> (eGP_list = <<>>)
        /\ (DOMAIN cohort.pctl.tip = {}) <=> (tip_list = <<>>)
        /\ eGP_list # <<>> => DOMAIN cohort.pctl.eGP = Pctiles
        /\ tip_list # <<>> => DOMAIN cohort.pctl.tip = Pctiles

\* every sampled gas price is zero: the map holds three zero entries, not nothing
C5_Witness ==
    /\ cpc = "done"
    /\ eGP_list # <<>>
    /\ AllZero(eGP_list)
    /\ DOMAIN cohort.pctl.eGP = Pctiles
    /\ \A q \in Pctiles : cohort.pctl.eGP[q] = 0

\* C6: when a per-block call fails the build still returns, the failed block
\* contributes nothing, and the sample is the first tx_cap transactions of the
\* blocks that were fetched, in block order.
C6_FailedBlockIsolated ==
    /\ []((cpc = "done" /\ tx_cap > 0) => txs = PySlice(ConcatOk(tasks), tx_cap))
    /\ (\E i \in DOMAIN tasks : tasks[i].status = "failed") ~> (cpc = "done")

\* the first call failed, the second succeeded and its transactions are sampled
C6_Witness ==
    /\ cpc = "done"
    /\ Len(tasks) = 2
    /\ tasks[1].status = "failed"
    /\ tasks[2].status = "ok"
    /\ tasks[2].ret # <<>>
    /\ txs = PySlice(tasks[2].ret, tx_cap)
    /\ eGP_list # <<>>

\* C7: when the listing fails, or every per-block call fails, the build returns
\* a CohortStats whose two percentile maps are empty.
C7_TotalFailureEmptyStats ==
    /\ [](listing = "failed" =>
            (cpc = "done" /\ DOMAIN cohort.pctl.eGP = {} /\ DOMAIN cohort.pctl.tip = {}))
    /\ []((cpc = "done" /\ AllTasksFailed) =>
            (DOMAIN cohort.pctl.eGP = {} /\ DOMAIN cohort.pctl.tip = {}))
    /\ (tasks # <<>> /\ AllTasksFailed) ~> (cpc = "done")

\* two calls were started and both failed
C7_Witness ==
    /\ cpc = "done"
    /\ Len(tasks) = 2
    /\ AllTasksFailed
    /\ cohort.pctl = [eGP |-> EmptyMap, tip |-> EmptyMap]

\* C8: one call per sampled block is started, all together, and the builder
\* computes only once every one of them has returned; no call is cancelled when
\* tx_cap is reached early.
C8_JoinAllBeforePercentiles ==
    /\ cpc \in {"gathering", "done"} =>
          /\ Len(tasks) = Len(PySlice(block_numbers, blocks))
          /\ \A i \in DOMAIN tasks : tasks[i].status \in {"running", "ok", "failed"}
    /\ cpc = "done" =>
          \A i \in DOMAIN tasks : tasks[i].status \in {"ok", "failed"}

\* the first block alone reached tx_cap; the second call still ran to its end,
\* and its transactions are not in the sample
C8_Witness ==
    /\ cpc = "done"
    /\ Len(tasks) = 2
    /\ Len(tasks[1].ret) >= tx_cap
    /\ tasks[2].status = "ok"
    /\ tasks[2].ret # <<>>
    /\ txs = PySlice(tasks[1].ret, tx_cap)

----------------------------------------------------------------------------
\* get_comprehensive_transaction_data called on its own

EnrichInit ==
    /\ etx \in EnrichTxArgs
    /\ etasks = EnrichDispatch(etx)
    /\ epc = "gathering"
    /\ enhanced_data = NoBundle
    /\ CohortIdle
    /\ ScoreIdle
    /\ RouteIdle
    /\ ListIdle
    /\ WsIdle

EnrichNext ==
    \/ \E i \in DOMAIN etasks : EnrichTaskReturn(i) /\ UNCHANGED <<cohortVars, scoreVars, routeVars, listVars, wsVars>>
    \/ EnrichReturn /\ UNCHANGED <<cohortVars, scoreVars, routeVars, listVars, wsVars>>

SpecEnrich == EnrichInit /\ [][EnrichNext]_vars

\* Every fetch carries a 30 s timeout, so a step that stays possible is taken.
SpecEnrichFair == SpecEnrich /\ WF_vars(EnrichNext)

\* what a fetcher hands back for a 200 answer: the body, or the body's items
ValueOfBody(name, body) ==
    IF name \notin ListEntries THEN body
    ELSE IF body.k = "list" THEN body
    ELSE IF "items" \in DOMAIN body.v THEN body.v.items
    ELSE EmptyList

FetchFailed(i) ==
    /\ i \in DOMAIN etasks
    /\ etasks[i].kind = "fetch"
    /\ etasks[i].answer.mode \in {"non200", "error"}

\* C9: when a fetch fails, times out or is answered with a status other than
\* 200, its entry of the bundle is the empty map or list, every fetch answered
\* with 200 keeps the value it returned, and the bundle is returned.
C9_FailedFetchDegradesAlone ==
    /\ [](epc = "done" =>
            \A i \in 1..5 :
                /\ FetchFailed(i) => enhanced_data[Entries[i]] = EmptyOf(Entries[i])
                /\ (etasks[i].kind = "fetch" /\ etasks[i].answer.mode = "ok") =>
                      enhanced_data[Entries[i]] = ValueOfBody(Entries[i], etasks[i].answer.body))
    /\ (\E i \in 1..5 : FetchFailed(i)) ~> (epc = "done")

\* the interpreter fetch was answered 404 and the four others 200 with data
C9_Witness ==
    /\ epc = "done"
    /\ etasks[4].answer.mode = "non200"
    /\ enhanced_data.interpreter_data = EmptyDict
    /\ \A i \in {1, 2, 3, 5} :
          /\ etasks[i].answer.mode = "ok"
          /\ enhanced_data[Entries[i]] # EmptyOf(Entries[i])
          /\ enhanced_data[Entries[i]] = etasks[i].ret

----------------------------------------------------------------------------
\* The scorers called on one transaction and its bundle
\* (routes_transactions.py line 30 and score_transaction_enhanced's callers).
ScoreInit ==
    /\ spc = "call"
    /\ s_tx \in ScoreTxs
    /\ s_api \in ScoreBundles
    /\ s_enhanced = NoScore
    /\ s_legacy = NoScore
    /\ ScorersFresh
    /\ CohortIdle
    /\ EnrichIdle
    /\ RouteIdle
    /\ ListIdle
    /\ WsIdle

ScoreEnhancedReturn ==
    /\ spc \in {"call", "legacy"}
    /\ s_enhanced' = score_transaction_enhanced(s_tx, s_api)
    /\ spc' = IF spc = "call" THEN "enhanced" ELSE "done"
    /\ UNCHANGED <<s_tx, s_api, s_legacy, enhanced_scorer, scorer, calls>>

ScoreLegacyReturn ==
    /\ spc \in {"call", "enhanced"}
    /\ s_legacy' = score_transaction(s_tx)
    /\ spc' = IF spc = "call" THEN "legacy" ELSE "done"
    /\ UNCHANGED <<s_tx, s_api, s_enhanced, enhanced_scorer, scorer, calls>>

ScoreNext ==
    \/ ScoreEnhancedReturn /\ UNCHANGED <<cohortVars, enrichVars, routeVars, listVars, wsVars>>
    \/ ScoreLegacyReturn /\ UNCHANGED <<cohortVars, enrichVars, routeVars, listVars, wsVars>>

SpecScore == ScoreInit /\ [][ScoreNext]_vars

ScoreValues(r) ==
    {r.scores.economic, r.scores.technical, r.scores.risk_security,
     r.scores.strategic, r.final_score, r.final_score_no_risk}

\* C2: the four sub-scores, the final score and the final score without risk
\* that score_transaction_enhanced and score_transaction return are between 0
\* and 100 points.
C2_ScoresInRange ==
    /\ (spc \in {"enhanced", "done"} /\ ~s_enhanced.raised) =>
          \A v \in ScoreValues(s_enhanced) : 0 <= v /\ v <= 100 * ScoreScale
    /\ spc \in {"legacy", "done"} =>
          \A v \in ScoreValues(s_legacy) : 0 <= v /\ v <= 100 * ScoreScale

\* a scam recipient on a failed transaction: the risk sum is far below 0 and is
\* returned as 0, while another sub-score is returned at its upper limit
C2_Witness ==
    /\ spc = "done"
    /\ ~s_enhanced.raised
    /\ s_tx.isScam
    /\ s_enhanced.scores.risk_security = 0
    /\ s_legacy.scores.risk_security = 0
    /\ s_enhanced.scores.strategic = 10 * ScoreScale
    /\ s_enhanced.final_score > 0

----------------------------------------------------------------------------
\* GET /transactions/{network}/{evm_address}/scores (routes.py lines 23-53)
MaxItems == 3

\* get_cohort_stats() is called with its defaults (transactions.py line 246)
DefaultBlocks == 12
DefaultTxCap == 600

\* bodies of the answer to the transaction listing
ListingBodies ==
    {JDict([items |-> w]) : w \in Windows(ItemPool, MaxItems)}
        \cup {EmptyDict, JDict([message |-> 0])}

TxListAnswers ==
    {[mode |-> "ok", data |-> d, code |-> 200] : d \in ListingBodies}
        \cup {[mode |-> "status", data |-> EmptyDict, code |-> 429],
              [mode |-> "request", data |-> EmptyDict, code |-> 0]}

\* get_cohort_stats run from its call to its return (lines 246-301), on a
\* listing answer rb and with every per-block call returning `answer`
get_cohort_stats(rb, answer, n_blocks, cap) ==
    LET started == PySlice(BlockNumbersOf(rb), n_blocks)
        sample == CohortSample([i \in 1..Len(started) |-> answer], cap)
    IN  CohortStats(GasPricesOf(sample), TipsOf(sample), BaseFeesOf(rb))

\* the listing failed, or it answered the whole stream and the per-block
\* calls all failed or were all answered with the whole transaction stream
CohortBuilds ==
    {get_cohort_stats(<<>>, <<>>, DefaultBlocks, DefaultTxCap)}
        \cup {get_cohort_stats(BlockPool, r, DefaultBlocks, DefaultTxCap) : r \in {<<>>, TxPool}}

\* the answers to one enrichment fetch: status 200 with data, or a failure
RouteFetchAnswers(name) ==
    {[mode |-> "ok", body |-> CHOOSE b \in OkBodies(name) : NonEmpty(b) /\ "message" \notin DOMAIN b.v],
     [mode |-> "error", body |-> None]}

\* mutant: the record is put in front
ListPrepend(l, x) == <<x>> \o l

\* scored_transactions.append(scored_tx) (line 46)
ListAppend(l, x) == Append(l, x)

\* mutant: the results of the first transaction's fetches are used again
EnrichResultsOfFirst(all_tasks, i) == GatherResults(all_tasks[1])

\* line 42: the call gathers the tasks it has created itself for this
\* transaction (transactions.py lines 176-196)
EnrichResults(all_tasks, i) == GatherResults(all_tasks[i])

\* line 31: get_last_transactions returns or raises
RouteTxsReturn ==
    /\ rpc = "listing"
    /\ \E a \in TxListAnswers :
          LET r == get_last_transactions(a)
          IN  /\ transactions' = r.result
              /\ r_status' = r.status_code
              /\ rpc' = IF r.raised THEN "error" ELSE "cohort"
    /\ UNCHANGED <<cohort_stats, r_i, r_tasks, scored_transactions, cohort_builds>>

\* line 38: get_cohort_stats returns; lines 40-42: the loop is entered and the
\* first transaction's fetches are dispatched
RouteCohortReturn ==
    /\ rpc = "cohort"
    /\ cohort_stats' \in CohortBuilds
    /\ cohort_builds' = cohort_builds + 1
    /\ IF transactions = <<>>
       THEN /\ rpc' = "done"
            /\ UNCHANGED <<r_i, r_tasks>>
       ELSE /\ rpc' = "enrich"
            /\ r_i' = 1
            /\ r_tasks' = <<EnrichDispatch(transactions[1])>>
    /\ UNCHANGED <<transactions, scored_transactions, r_status>>

\* one of the five tasks of the current transaction returns (the order of the
\* returns is not recorded here)
RouteTaskReturn(j) ==
    /\ rpc = "enrich"
    /\ j \in DOMAIN r_tasks[r_i]
    /\ r_tasks[r_i][j].status = "running"
    /\ \E a \in (IF r_tasks[r_i][j].kind = "fetch" THEN RouteFetchAnswers(Entries[j])
                  ELSE {[mode |-> "none", body |-> None]}) :
          r_tasks' = [r_tasks EXCEPT ![r_i][j] =
                        [kind |-> @.kind, status |-> "done", answer |-> a,
                         ret |-> IF @.kind = "fetch" THEN FetchReturn(Entries[j], a) ELSE None,
                         early |-> FALSE]]
    /\ UNCHANGED <<rpc, transactions, cohort_stats, r_i, scored_transactions, r_status,
                   cohort_builds>>

\* mutant: the loop body hands the next iteration an emptied cohort
RouteEnrichReturnResetting ==
    /\ rpc = "enrich"
    /\ JoinReady(r_tasks[r_i])
    /\ LET api_data == BundleOf(EnrichResults(r_tasks, r_i))
           scored_tx == score_transaction_enhanced_v2(transactions[r_i], api_data, cohort_stats)
       IN  IF scored_tx.raised
           THEN /\ rpc' = "error"
                /\ r_status' = 500
                /\ UNCHANGED <<r_i, r_tasks, scored_transactions>>
           ELSE /\ scored_transactions' = ListAppend(scored_transactions, scored_tx)
                /\ r_status' = r_status
                /\ IF r_i < Len(transactions)
                   THEN /\ r_i' = r_i + 1
                        /\ r_tasks' = Append(r_tasks, EnrichDispatch(transactions[r_i + 1]))
                        /\ rpc' = "enrich"
                   ELSE /\ rpc' = "done"
                        /\ UNCHANGED <<r_i, r_tasks>>
    /\ cohort_stats' = CohortStats(<<>>, <<>>, <<>>)
    /\ UNCHANGED <<transactions, cohort_builds>>

\* mutant: get_cohort_stats is awaited inside the loop, once per transaction
RouteEnrichReturnRebuilding ==
    /\ rpc = "enrich"
    /\ JoinReady(r_tasks[r_i])
    /\ LET api_data == BundleOf(EnrichResults(r_tasks, r_i))
           scored_tx == score_transaction_enhanced_v2(transactions[r_i], api_data, cohort_stats)
       IN  IF scored_tx.raised
           THEN /\ rpc' = "error"
                /\ r_status' = 500
                /\ UNCHANGED <<r_i, r_tasks, scored_transactions>>
           ELSE /\ scored_transactions' = ListAppend(scored_transactions, scored_tx)
                /\ r_status' = r_status
                /\ IF r_i < Len(transactions)
                   THEN /\ r_i' = r_i + 1
                        /\ r_tasks' = Append(r_tasks, EnrichDispatch(transactions[r_i + 1]))
                        /\ rpc' = "enrich"
                   ELSE /\ rpc' = "done"
                        /\ UNCHANGED <<r_i, r_tasks>>
    /\ cohort_stats' \in CohortBuilds
    /\ cohort_builds' = cohort_builds + 1
    /\ UNCHANGED transactions

\* lines 42-46: the gather of the current transaction returns, the
\* transaction is scored and its record appended; then the next transaction's
\* fetches are dispatched, or the response is returned (lines 48-53). An
\* exception of the scorer leaves the route.
RouteEnrichReturn ==
    /\ rpc = "enrich"
    /\ JoinReady(r_tasks[r_i])
    /\ LET api_data == BundleOf(EnrichResults(r_tasks, r_i))
           scored_tx == score_transaction_enhanced_v2(transactions[r_i], api_data, cohort_stats)
       IN  IF scored_tx.raised
           THEN /\ rpc' = "error"
                /\ r_status' = 500
                /\ UNCHANGED <<r_i, r_tasks, scored_transactions>>
           ELSE /\ scored_transactions' = ListAppend(scored_transactions, scored_tx)
                /\ r_status' = r_status
                /\ IF r_i < Len(transactions)
                   THEN /\ r_i' = r_i + 1
                        /\ r_tasks' = Append(r_tasks, EnrichDispatch(transactions[r_i + 1]))
                        /\ rpc' = "enrich"
                   ELSE /\ rpc' = "done"
                        /\ UNCHANGED <<r_i, r_tasks>>
    /\ UNCHANGED <<transactions, cohort_stats, cohort_builds>>

RouteInit ==
    /\ rpc = "listing"
    /\ transactions = <<>>
    /\ cohort_stats = CohortStats(<<>>, <<>>, <<>>)
    /\ r_i = 0
    /\ r_tasks = <<>>
    /\ scored_transactions = <<>>
    /\ r_status = 200
    /\ cohort_builds = 0
    /\ CohortIdle
    /\ EnrichIdle
    /\ ScoreIdle
    /\ ListIdle
    /\ WsIdle

RouteNext ==
    \/ RouteTxsReturn /\ UNCHANGED <<cohortVars, enrichVars, scoreVars, listVars, wsVars>>
    \/ RouteCohortReturn /\ UNCHANGED <<cohortVars, enrichVars, scoreVars, listVars, wsVars>>
    \/ \E j \in 1..5 : RouteTaskReturn(j) /\ UNCHANGED <<cohortVars, enrichVars, scoreVars, listVars, wsVars>>
    \/ RouteEnrichReturn /\ UNCHANGED <<cohortVars, enrichVars, scoreVars, listVars, wsVars>>

SpecRoute == RouteInit /\ [][RouteNext]_vars

\* the bundle that the answers to transaction i's own fetches make up
OwnBundle(i) ==
    [j \in 1..5 |->
        IF r_tasks[i][j].kind = "fetch" /\ r_tasks[i][j].answer.mode = "ok"
        THEN ValueOfBody(Entries[j], r_tasks[i][j].answer.body)
        ELSE IF r_tasks[i][j].kind = "fetch" THEN EmptyOf(Entries[j])
        ELSE None]

OwnRecord(i) ==
    LET b == OwnBundle(i)
    IN  score_transaction_enhanced_v2(
            transactions[i],
            [address_info |-> b[1], token_transfers |-> b[2], transaction_details |-> b[3],
             interpreter_data |-> b[4], transaction_logs |-> b[5]],
            cohort_stats)

\* C1: once the response is returned, the list of scored transactions has one
\* entry per transaction of the batch and entry i is the score of transaction
\* i, in every order of completion of the enrichment fetches.
C1_BatchOrderAndLength ==
    rpc = "done" =>
        /\ Len(scored_transactions) = Len(transactions)
        /\ \A i \in DOMAIN transactions :
              /\ scored_transactions[i].tx_hash = transactions[i].hash
              /\ scored_transactions[i] =
                    score_transaction_enhanced_v2(transactions[i],
                        scored_transactions[i].enhanced_data, cohort_stats)

\* three transactions with three different hashes were scored
C1_Witness ==
    /\ rpc = "done"
    /\ Len(transactions) = 3
    /\ Len(scored_transactions) = 3
    /\ \A i, j \in 1..3 : i # j => transactions[i].hash # transactions[j].hash
    /\ scored_transactions[2].tx_hash = transactions[2].hash

\* C10: missing or failed enrichment of one transaction leaves every other
\* transaction's record as its own fetches make it, and does not keep any
\* record from being produced: every record is the one its own transaction's
\* answers give, the loop leaves a transaction only for the next one or for
\* the response, and the response carries one record per transaction.
C10_FailureStaysWithItsTransaction ==
    /\ [](rpc \in {"enrich", "done"} =>
            /\ Len(scored_transactions) = (IF rpc = "done" THEN Len(transactions) ELSE r_i - 1)
            /\ \A i \in DOMAIN scored_transactions : scored_transactions[i] = OwnRecord(i))
    /\ [][rpc = "enrich" =>
            /\ rpc' \in {"enrich", "done"}
            /\ r_i' \in {r_i, r_i + 1}
            /\ (r_i' = r_i + 1 \/ rpc' = "done") =>
                  Len(scored_transactions') = Len(scored_transactions) + 1]_vars

\* every fetch of the first transaction failed, every fetch of the second was
\* answered, and the second record shows the data of its own fetches
C10_Witness ==
    /\ rpc = "done"
    /\ Len(scored_transactions) >= 2
    /\ \A j \in 1..5 : r_tasks[1][j].kind = "fetch" /\ r_tasks[1][j].answer.mode = "error"
    /\ \A j \in 1..5 : r_tasks[2][j].kind = "fetch" /\ r_tasks[2][j].answer.mode = "ok"
    /\ scored_transactions[1].enhanced_data = NoBundle
    /\ scored_transactions[2].scores.risk_security < scored_transactions[1].scores.risk_security
    /\ scored_transactions[2] = OwnRecord(2)

----------------------------------------------------------------------------
\* A sequence of scoring calls on one EnhancedTransactionScorer and one
\* TransactionScorer. A method is the pair of what it leaves in the object and
\* what it returns.
MaxCalls == 3

\* mutant: the object remembers that it has scored, and a later record loses
\* its hash
EnhancedMethodRemembering(self, tx, api_data) ==
    [self |-> [wallet |-> "seen"],
     out |-> IF self.wallet = "seen"
             THEN [score_transaction_enhanced(tx, api_data) EXCEPT !.tx_hash = None]
             ELSE score_transaction_enhanced(tx, api_data)]

\* EnhancedTransactionScorer.score_transaction_enhanced(self, tx, api_data):
\* no attribute is assigned or read (scoring.py lines 398-459)
EnhancedMethod(self, tx, api_data) ==
    [self |-> self, out |-> score_transaction_enhanced(tx, api_data)]

\* TransactionScorer.score_transaction(self, tx) (lines 117-138)
LegacyMethod(self, tx) == [self |-> self, out |-> score_transaction(tx)]

\* the arguments of the calls
SeqTxs ==
    { ScoreTx(g, f, r, <<"stake">>) :
        g \in {x \in GasProfiles : x.gasUsed = 80},
        f \in {x \in FeeProfiles : x.type = 0},
        r \in {x \in RiskProfiles : x.status \in {"failed", "unknown"}} }

SeqBundles ==
    { b \in ScoreBundles :
        /\ b.address_info.k = "dict" /\ "balance" \in DOMAIN b.address_info.v
        /\ b.token_transfers.k = "list"
        /\ b.transaction_details = None
        /\ b.interpreter_data = None
        /\ b.transaction_logs = EmptyList }

EnhancedCall ==
    /\ spc = "idle"
    /\ Len(calls) < MaxCalls
    /\ \E tx \in SeqTxs, api_data \in SeqBundles :
          \E r \in {EnhancedMethod(enhanced_scorer, tx, api_data)} :
              /\ enhanced_scorer' = r.self
              /\ calls' = Append(calls, [kind |-> "enhanced", tx |-> tx,
                                         api_data |-> api_data, out |-> r.out])
    /\ UNCHANGED <<spc, s_tx, s_api, s_enhanced, s_legacy, scorer>>

LegacyCall ==
    /\ spc = "idle"
    /\ Len(calls) < MaxCalls
    /\ \E tx \in SeqTxs :
          \E r \in {LegacyMethod(scorer, tx)} :
              /\ scorer' = r.self
              /\ calls' = Append(calls, [kind |-> "legacy", tx |-> tx,
                                         api_data |-> NoBundle, out |-> r.out])
    /\ UNCHANGED <<spc, s_tx, s_api, s_enhanced, s_legacy, enhanced_scorer>>

ScorerInit ==
    /\ ScoreIdle
    /\ CohortIdle
    /\ EnrichIdle
    /\ RouteIdle
    /\ ListIdle
    /\ WsIdle

ScorerNext ==
    \/ EnhancedCall /\ UNCHANGED <<cohortVars, enrichVars, routeVars, listVars, wsVars>>
    \/ LegacyCall /\ UNCHANGED <<cohortVars, enrichVars, routeVars, listVars, wsVars>>

SpecScorer == ScorerInit /\ [][ScorerNext]_vars

----------------------------------------------------------------------------
\* C12: score_transaction_enhanced returns a record for every bundle, whichever
\* of its entries are absent (None, as get_comprehensive_transaction_data leaves
\* the entries it fetched nothing for) or empty.
C12_AbsentDataNeverRaises ==
    spc \in {"enhanced", "done"} => ~s_enhanced.raised

----------------------------------------------------------------------------
----------------------------------------------------------------------------
\* get_cohort_stats(blocks, tx_cap) called with any integers: the signature
\* (line 246) takes them as they come and no line of the body looks at their sign
NonPositive == {-1, 0}

CohortInitAnyCaps ==
    /\ cpc = "listing"
    /\ blocks \in NonPositive \cup {MaxBlocks}
    /\ tx_cap \in NonPositive \cup {MaxTxCap}
    /\ recent_blocks = <<>>
    /\ block_numbers = <<>>
    /\ base_fees = <<>>
    /\ tasks = <<>>
    /\ txs = <<>>
    /\ eGP_list = <<>>
    /\ tip_list = <<>>
    /\ cohort = CohortStats(<<>>, <<>>, <<>>)
    /\ listing = "pending"
    /\ EnrichIdle
    /\ ScoreIdle
    /\ RouteIdle
    /\ ListIdle
    /\ WsIdle

SpecCohortAnyCaps == CohortInitAnyCaps /\ [][CohortNext]_vars

\* C14: a build asked for with blocks <= 0 or tx_cap <= 0 is turned down and
\* returns no CohortStats that holds values of the sampled blocks or
\* transactions.
C14_NonPositiveCapsRejected ==
    (blocks <= 0 \/ tx_cap <= 0) =>
        (cpc = "done" => cohort = CohortStats(<<>>, <<>>, <<>>))

----------------------------------------------------------------------------
\* the integers among a sequence of JSON values, in order
RECURSIVE IntsOf(_)
IntsOf(vals) ==
    IF vals = <<>> THEN <<>>
    ELSE (IF IntOk(Head(vals)) THEN <<Head(vals).v>> ELSE <<>>) \o IntsOf(Tail(vals))

\* C15: a number, base fee, gas price or tip that is not an integer costs the
\* sample that one value only: the build returns, and the block numbers, the
\* base fees, the gas prices and the tips it used are all the interpretable
\* ones of the listed blocks and of the sampled transactions.
C15_MalformedValueLosesOnlyItself ==
    cpc = "done" =>
        /\ block_numbers = IntsOf([i \in DOMAIN recent_blocks |-> BlockN(recent_blocks[i])])
        /\ base_fees = IntsOf([i \in DOMAIN recent_blocks |-> recent_blocks[i].base_fee_per_gas])
        /\ eGP_list = IntsOf([i \in DOMAIN txs |-> TxGp(txs[i])])
        /\ tip_list = IntsOf([i \in DOMAIN txs |-> txs[i].max_priority_fee_per_gas])

----------------------------------------------------------------------------
\* limit=200 of get_block_transactions (lines 229 and 267), on the scale of the
\* answers of the model: the number asked for in the query string
PerBlockLimit == 1

\* how many transactions of the sample come from the i-th per-block call: its
\* stretch of the concatenated results that lies within txs
FromBlock(i) ==
    LET before == SumLen([j \in 1..(i - 1) |-> tasks[j].ret])
    IN  Min(Len(tasks[i].ret), Max(0, Len(txs) - before))

\* C16: no per-block call brings more than the per-block limit of
\* transactions into the sample, however many the data source answered with.
C16_PerBlockCap ==
    cpc = "done" => \A i \in DOMAIN tasks : FromBlock(i) <= PerBlockLimit

----------------------------------------------------------------------------
\* v[floor(k)] + (v[ceil(k)] - v[floor(k)]) * (k - floor(k)) for k = (n-1)p/100,
\* in hundredths; v is indexed from 0 in the formula and from 1 here
Interpolated(v, p) ==
    LET n == Len(v)
        lo == ((n - 1) * p) \div 100
        hi == ((n - 1) * p + 99) \div 100
        frac100 == (n - 1) * p - 100 * lo
    IN  100 * v[lo + 1] + (v[hi + 1] - v[lo + 1]) * frac100

\* C17: each percentile of a non-empty metric is the linear interpolation
\* between the order statistics at floor(k) and ceil(k), k = (n-1)p/100.
C17_LinearInterpolation ==
    cpc = "done" =>
        /\ eGP_list # <<>> =>
              \A q \in Pctiles : cohort.pctl.eGP[q] = Interpolated(sorted(eGP_list), q)
        /\ tip_list # <<>> =>
              \A q \in Pctiles : cohort.pctl.tip[q] = Interpolated(sorted(tip_list), q)

\* three gas prices, two of them different: the 80th percentile lies strictly
\* between two of the values
C17_Witness ==
    /\ cpc = "done"
    /\ Len(eGP_list) = 3
    /\ \A i \in 1..3 : cohort.pctl.eGP[80] # PctlScale * eGP_list[i]
    /\ cohort.pctl.eGP[50] = PctlScale * sorted(eGP_list)[2]

----------------------------------------------------------------------------
\* the listed blocks that report a base fee int() accepts; the listing is most
\* recent first
Reporting == {i \in DOMAIN recent_blocks : IntOk(recent_blocks[i].base_fee_per_gas)}

\* C18: base_fee_last is the base fee of the first listed block that reports
\* an interpretable one, and it is None exactly when no listed block does.
C18_BaseFeeOfMostRecentReporting ==
    cpc = "done" =>
        IF Reporting = {}
        THEN cohort.base_fee_last = None
        ELSE LET first == CHOOSE i \in Reporting : \A j \in Reporting : i <= j
             IN  cohort.base_fee_last = JInt(recent_blocks[first].base_fee_per_gas.v)

\* two listed blocks report different base fees and the one listed first is
\* the one stored
C18_Witness ==
    /\ cpc = "done"
    /\ Cardinality(Reporting) = 2
    /\ \E i, j \in Reporting :
          /\ i < j
          /\ recent_blocks[i].base_fee_per_gas.v # recent_blocks[j].base_fee_per_gas.v
          /\ cohort.base_fee_last = JInt(recent_blocks[i].base_fee_per_gas.v)

----------------------------------------------------------------------------
Dist(a, b) == IF a >= b THEN a - b ELSE b - a

\* C19: the record's final_score_no_risk is 0.35 economic + 0.25 technical +
\* 0.10 strategic and its final_score is that plus 0.30 risk, each held within
\* 0 and 100 points (compared in ten-thousandths of a point, to the half
\* hundredth that rounding to two decimals allows).
C19_AggregatorWeights ==
    (spc \in {"enhanced", "done"} /\ ~s_enhanced.raised) =>
        LET sc == s_enhanced.scores
            no_risk == Clamp(0, 100 * 100 * ScoreScale,
                             35 * sc.economic + 25 * sc.technical + 10 * sc.strategic)
            final == Clamp(0, 100 * 100 * ScoreScale, no_risk + 30 * sc.risk_security)
        IN  /\ Dist(100 * s_enhanced.final_score_no_risk, no_risk) <= 50
            /\ Dist(100 * s_enhanced.final_score, final) <= 50

\* C20: the risk bucket is a function of the risk sub-score alone, with the
\* sub-score taken in points out of 100: below 40 "high", from 40 to below 70
\* "medium", from 70 on "low".
C20_RiskBuckets ==
    (spc \in {"enhanced", "done"} /\ ~s_enhanced.raised) =>
        LET risk100 == 10 * s_enhanced.scores.risk_security
        IN  s_enhanced.risk_level =
                (IF risk100 < 40 * ScoreScale THEN "high"
                 ELSE IF risk100 < 70 * ScoreScale THEN "medium" ELSE "low")

----------------------------------------------------------------------------
\* The Percentile Estimator and the confidence of the aggregator, each called
\* on its own on arguments drawn from small sets.
MaxRankX == 5

\* thresholds in 1/PctlScale, each of 50, 80 and 95 present or absent
ThresholdValues == {0, 100, 250, 400}

ThresholdMaps ==
    UNION { [d -> ThresholdValues] : d \in SUBSET Pctiles }

\* the five numeric signals of a transaction, each there or not
SignalTxs ==
    { [NoTx EXCEPT !.gasPrice = s[1], !.maxPriorityFeePerGas = s[2],
                   !.baseFeePerGas = s[3], !.gasUsed = s[4], !.gasLimit = s[5]] :
        s \in [1..5 -> {0, 21}] }

VerdictBundles ==
    { [NoBundle EXCEPT !.interpreter_data = n] :
        n \in {x \in InterpreterData : x # None} \cup {EmptyDict} }

\* cohorts with and without each of the two percentile maps
MapCohorts ==
    { CohortStats(e, t, <<>>) : e \in {<<>>, <<3>>}, t \in {<<>>, <<1>>} }

RankCall ==
    /\ spc = "idle"
    /\ calls = <<>>
    /\ \E pm \in ThresholdMaps, x1 \in 0..MaxRankX, x2 \in 0..MaxRankX :
          /\ x1 <= x2
          /\ calls' = <<[kind |-> "rank", pm |-> pm, x1 |-> x1, x2 |-> x2,
                         r1 |-> PercentileRank(x1, pm), r2 |-> PercentileRank(x2, pm)]>>
    /\ UNCHANGED <<spc, s_tx, s_api, s_enhanced, s_legacy, enhanced_scorer, scorer>>

ConfidenceCall ==
    /\ spc = "idle"
    /\ calls = <<>>
    /\ \E tx \in SignalTxs, api_data \in VerdictBundles, cs \in MapCohorts :
          calls' = <<[kind |-> "confidence", tx |-> tx, api_data |-> api_data, cs |-> cs,
                      out |-> confidence_v2(tx, api_data, cs)]>>
    /\ UNCHANGED <<spc, s_tx, s_api, s_enhanced, s_legacy, enhanced_scorer, scorer>>

EstimatorNext ==
    \/ RankCall /\ UNCHANGED <<cohortVars, enrichVars, routeVars, listVars, wsVars>>
    \/ ConfidenceCall /\ UNCHANGED <<cohortVars, enrichVars, routeVars, listVars, wsVars>>

SpecEstimator == ScorerInit /\ [][EstimatorNext]_vars

\* C21: for fixed thresholds, each present or absent, the rank of the smaller
\* of two values is never above the rank of the larger.
C21_RankMonotonic ==
    \A i \in DOMAIN calls :
        calls[i].kind = "rank" => calls[i].r1 <= calls[i].r2

\* p80 and p95 are absent and synthesized; the two values lie on either side
\* of p50 and the larger one beyond the synthesized p95
C21_Witness ==
    /\ calls # <<>>
    /\ calls[1].kind = "rank"
    /\ DOMAIN calls[1].pm = {50}
    /\ calls[1].pm[50] = 250
    /\ calls[1].x1 = 2 /\ calls[1].x2 = 5
    /\ calls[1].r1 < RankScale \div 2
    /\ calls[1].r2 = 9800

\* C22: for every combination of signals there or not and of percentile maps
\* there or not, the confidence lies between 0.7 and 1.0.
C22_ConfidenceInRange ==
    \A i \in DOMAIN calls :
        calls[i].kind = "confidence" =>
            (7 * RankScale <= 10 * calls[i].out /\ calls[i].out <= RankScale)

\* no signal and no percentile map: 0.7 + 0 - 0.05 - 0.05 is held at 0.7
C22_Witness ==
    /\ calls # <<>>
    /\ calls[1].kind = "confidence"
    /\ calls[1].tx.gasPrice = 0 /\ calls[1].tx.gasUsed = 0 /\ calls[1].tx.gasLimit = 0
    /\ calls[1].tx.maxPriorityFeePerGas = 0 /\ calls[1].tx.baseFeePerGas = 0
    /\ calls[1].api_data.interpreter_data = EmptyDict
    /\ calls[1].cs.pctl = [eGP |-> EmptyMap, tip |-> EmptyMap]
    /\ 10 * calls[1].out = 7 * RankScale

----------------------------------------------------------------------------
\* C23: in whatever order the per-block calls return, the sample is the first
\* tx_cap transactions of the lists of the calls that succeeded, joined in the
\* order of the block list, and the CohortStats is the one those lists give.
C23_SampleInBlockOrder ==
    cpc = "done" =>
        LET sample == PySlice(ConcatOk(tasks), tx_cap)
        IN  /\ txs = sample
            /\ cohort = CohortStats(GasPricesOf(sample), TipsOf(sample),
                                    BaseFeesOf(recent_blocks))

\* the call for the second block returned before the call for the first, with
\* other transactions; the sample starts with those of the first block
C23_Witness ==
    /\ cpc = "done"
    /\ Len(tasks) = 2
    /\ tasks[2].at = 1 /\ tasks[1].at = 2
    /\ tasks[1].status = "ok" /\ tasks[2].status = "ok"
    /\ tasks[1].ret # <<>> /\ tasks[2].ret # <<>>
    /\ Head(tasks[1].ret) # Head(tasks[2].ret)
    /\ Len(tasks[1].ret) < tx_cap
    /\ Head(txs) = Head(tasks[1].ret)
    /\ txs[Len(tasks[1].ret) + 1] = Head(tasks[2].ret)

----------------------------------------------------------------------------
\* C24: a scoring request that gets its batch awaits get_cohort_stats exactly
\* once, and that call has returned before the first enrichment fetch of the
\* first transaction is dispatched and before any transaction is scored. (A
\* request whose listing raises has no batch and builds nothing.)
C24_CohortBuiltOnceBeforeBatch ==
    /\ cohort_builds <= 1
    /\ (r_i > 0 \/ r_tasks # <<>> \/ scored_transactions # <<>>) => cohort_builds = 1
    /\ rpc \in {"enrich", "done"} => cohort_builds = 1
    /\ rpc \in {"listing", "cohort"} =>
          cohort_builds = 0 /\ r_tasks = <<>> /\ scored_transactions = <<>>

\* a batch of three transactions scored on one build over a non-empty sample
C24_Witness ==
    /\ rpc = "done"
    /\ Len(scored_transactions) = 3
    /\ Len(r_tasks) = 3
    /\ cohort_builds = 1
    /\ cohort_stats # CohortStats(<<>>, <<>>, <<>>)

----------------------------------------------------------------------------
\* C25: in whatever order the five fetches return, each entry of the bundle is
\* the value its own fetcher returned: address_info that of get_address_info,
\* token_transfers that of get_token_transfers, and so on by position.
C25_EntryHoldsOwnFetch ==
    epc = "done" =>
        \A i \in 1..5 :
            /\ enhanced_data[Entries[i]] = etasks[i].ret
            /\ etasks[i].kind = "fetch" =>
                  enhanced_data[Entries[i]] \in
                      {FetchReturn(Entries[i], a) : a \in FetchAnswers(Entries[i])}

\* the five fetches were answered with data and returned last-dispatched
\* first, so that every one but the first returned ahead of an earlier one
C25_Witness ==
    /\ epc = "done"
    /\ \A i \in 1..5 : etasks[i].kind = "fetch" /\ etasks[i].answer.mode = "ok"
    /\ \A i \in 2..5 : etasks[i].early
    /\ \A i \in 1..5 : enhanced_data[Entries[i]] # EmptyOf(Entries[i])
    /\ \A i, j \in 1..5 : i # j => enhanced_data[Entries[i]] # enhanced_data[Entries[j]]

\* C26: for every transaction, one without recipient or without hash
\* included, the bundle holds a map under address_info, transaction_details
\* and interpreter_data and a list under token_transfers and transaction_logs.
C26_BundleShapes ==
    epc = "done" =>
        \A i \in 1..5 :
            enhanced_data[Entries[i]].k = (IF Entries[i] \in ListEntries THEN "list" ELSE "dict")

----------------------------------------------------------------------------
\* get_last_transactions called on its own: the two copies are given the same
\* answer of the data source.
MaxListItems == 4

\* the lists of at most MaxListItems items of the pool, as choices of positions
ItemChoices == UNION {[1..n -> DOMAIN ItemPool] : n \in 0..MaxListItems}

ItemsOf(f) == [i \in DOMAIN f |-> ItemPool[f[i]]]

ListInit ==
    /\ \/ \E f \in ItemChoices :
             l_answer = [mode |-> "ok", data |-> JDict([items |-> ItemsOf(f)]), code |-> 200]
       \/ l_answer = [mode |-> "ok", data |-> EmptyDict, code |-> 200]
       \/ l_answer = [mode |-> "ok", data |-> JDict([message |-> 0]), code |-> 200]
       \/ l_answer = [mode |-> "status", data |-> EmptyDict, code |-> 429]
       \/ l_answer = [mode |-> "request", data |-> EmptyDict, code |-> 0]
    /\ l_ret = NotReturned
    /\ l_old_ret = NotReturned
    /\ CohortIdle
    /\ EnrichIdle
    /\ ScoreIdle
    /\ RouteIdle
    /\ WsIdle

\* app/transactions.py: the call returns or raises
ListingReturn ==
    /\ l_ret = NotReturned
    /\ l_ret' = get_last_transactions(l_answer)
    /\ UNCHANGED <<l_answer, l_old_ret>>

\* src/back/transactions.py: the call returns or raises
BackListingReturn ==
    /\ l_old_ret = NotReturned
    /\ l_old_ret' = back_get_last_transactions(l_answer)
    /\ UNCHANGED <<l_answer, l_ret>>

ListNext ==
    \/ ListingReturn /\ UNCHANGED <<cohortVars, enrichVars, scoreVars, routeVars, wsVars>>
    \/ BackListingReturn /\ UNCHANGED <<cohortVars, enrichVars, scoreVars, routeVars, wsVars>>

SpecListing == ListInit /\ [][ListNext]_vars

\* the answer is a 200 whose body has the key "items"
HasItems == l_answer.mode = "ok" /\ "items" \in DOMAIN l_answer.data.v

\* an item every field of which is as the API documents it, its recipient
\* being an object, absent or null
WellFormed(item) ==
    /\ ~ItemRaises([item EXCEPT !.to = EmptyDict])
    /\ ItemGet(item, "to", EmptyDict).k \in {"dict", "none"}

\* C27: for an answer with well-formed items, get_last_transactions returns
\* one record per item of the first three, in the order of the answer and never
\* more than three; an item whose recipient is null gives a record with
\* to = None.
C27_OneRecordPerItem ==
    (l_ret # NotReturned /\ HasItems /\ \A i \in DOMAIN l_answer.data.v.items :
                                          WellFormed(l_answer.data.v.items[i])) =>
        LET items == l_answer.data.v.items
            n == Min(Len(items), LastN)
        IN  /\ ~l_ret.raised
            /\ Len(l_ret.result) = n
            /\ \A i \in 1..n :
                  /\ l_ret.result[i].hash = items[i].hash
                  /\ ItemGet(items[i], "to", EmptyDict).k = "none" =>
                        l_ret.result[i].to.k = "none"

\* C28: when the body of the answer is empty or has no key "items",
\* get_last_transactions raises the HTTP error with status 404.
C28_NoItemsIs404 ==
    (l_ret # NotReturned /\ l_answer.mode = "ok" /\ ~HasItems) =>
        l_ret.raised /\ l_ret.status_code = 404

----------------------------------------------------------------------------
\* The websocket /aiservice/analyse (routes.py lines 108-138) and explain
\* (AIService.py lines 58-89, the explain routes.py imports). A request is the
\* list of the tx_hash of its scored transactions.
MaxScored == 2

TxHashes == {"0xa", "0xb"}

ExplainRequests == UNION {[1..n -> TxHashes] : n \in 0..MaxScored}

\* what the client sends: the JSON of an ExplainRequest, or a text that
\* json.loads or ExplainRequest(**req_dict) rejects (lines 122-123)
ClientTexts ==
    {[valid |-> TRUE, scored_transactions |-> q] : q \in ExplainRequests}
        \cup {[valid |-> FALSE, scored_transactions |-> <<>>]}

\* What a call of the model gives: "json" is status 200 with a JSON object in
\* the text, holding the tx_hash the model wrote ("absent" without one) and
\* the fields TxExplanation requires or not; "non200" another status;
\* "not_json" a text without a JSON object; "timeout" the 120 s of the client.
ModelReplies ==
    {[kind |-> "json", tx_hash |-> h, complete |-> c] :
        h \in TxHashes \cup {"0xc", "absent"}, c \in BOOLEAN}
        \cup {[kind |-> k, tx_hash |-> "absent", complete |-> FALSE] :
                 k \in {"non200", "not_json", "timeout"}}

ErrorMsg(d) == [kind |-> "error", explanations |-> <<>>, detail |-> d]

ResponseMsg(exps) == [kind |-> "response", explanations |-> exps, detail |-> ""]

\* AIService.py lines 77-80: the parsed object with its tx_hash overwritten
Parsed(tx_hash, reply) ==
    [tx_hash |-> tx_hash, model_hash |-> reply.tx_hash, complete |-> reply.complete]

\* AIService.py lines 84-89: TxExplanation(**e) validates every explanation
ExplainResult(exps) ==
    IF \A i \in DOMAIN exps : exps[i].complete
    THEN ResponseMsg([i \in DOMAIN exps |-> [tx_hash |-> exps[i].tx_hash]])
    ELSE ErrorMsg("validation")

\* explain of ai.py (lines 106-139): with a transaction, line 116 reads
\* req.ai, a field ExplainRequest does not have; without one, line 132 reads
\* used_model, which was never bound
ai_explain(req) ==
    IF req = <<>> THEN ErrorMsg("UnboundLocalError") ELSE ErrorMsg("AttributeError")

\* lines 119-123: the client's text arrives and is parsed
WsReceive ==
    /\ wpc = "receive"
    /\ w_client = "connected"
    /\ \E text \in ClientTexts :
          IF text.valid
          THEN /\ w_req' = text.scored_transactions
               /\ wpc' = "explain"
               /\ UNCHANGED w_result
          ELSE /\ w_result' = ErrorMsg("request")
               /\ wpc' = "respond"
               /\ UNCHANGED w_req
    /\ UNCHANGED <<w_client, w_explanations, w_sent, w_closed, ai_result>>

\* lines 119, 133-134: receive_text raises WebSocketDisconnect
WsReceiveDisconnect ==
    /\ wpc = "receive"
    /\ w_client = "disconnected"
    /\ wpc' = "gone"
    /\ UNCHANGED <<w_client, w_req, w_explanations, w_result, w_sent, w_closed, ai_result>>

\* AIService.py lines 62-82: one pass of the loop, from the call of the model
\* to the append; ollama_chat or force_json may raise
ExplainModelReply ==
    /\ wpc = "explain"
    /\ Len(w_explanations) < Len(w_req)
    /\ \E reply \in ModelReplies :
          IF reply.kind = "json"
          THEN /\ w_explanations' =
                     Append(w_explanations, Parsed(w_req[Len(w_explanations) + 1], reply))
               /\ UNCHANGED <<wpc, w_result>>
          ELSE /\ w_result' = ErrorMsg(reply.kind)
               /\ wpc' = "respond"
               /\ UNCHANGED w_explanations
    /\ UNCHANGED <<w_client, w_req, w_sent, w_closed, ai_result>>

\* AIService.py lines 84-89: the loop is over and the response is built
ExplainReturn ==
    /\ wpc = "explain"
    /\ Len(w_explanations) = Len(w_req)
    /\ w_result' = ExplainResult(w_explanations)
    /\ wpc' = "respond"
    /\ UNCHANGED <<w_client, w_req, w_explanations, w_sent, w_closed, ai_result>>

\* mutant: after the response the error object is sent as well
WsSendThenError ==
    /\ wpc = "respond"
    /\ \/ /\ w_sent' = w_sent \o <<w_result, ErrorMsg("close")>>
          /\ wpc' = "close"
       \/ /\ w_client = "disconnected"
          /\ wpc' = "gone"
          /\ UNCHANGED w_sent
    /\ UNCHANGED <<w_client, w_req, w_explanations, w_result, w_closed, ai_result>>

\* line 128 or line 137: send_text. With the client gone the send either
\* still goes out or raises, and the handler ends.
WsSend ==
    /\ wpc = "respond"
    /\ \/ /\ w_sent' = Append(w_sent, w_result)
          /\ wpc' = "close"
       \/ /\ w_client = "disconnected"
          /\ wpc' = "gone"
          /\ UNCHANGED w_sent
    /\ UNCHANGED <<w_client, w_req, w_explanations, w_result, w_closed, ai_result>>

\* line 131 or line 138: close. With the client gone the close either goes
\* through or raises; the send_text of line 137 then raises as well.
WsClose ==
    /\ wpc = "close"
    /\ \/ /\ w_closed' = TRUE
          /\ wpc' = "closed"
       \/ /\ w_client = "disconnected"
          /\ wpc' = "gone"
          /\ UNCHANGED w_closed
    /\ UNCHANGED <<w_client, w_req, w_explanations, w_result, w_sent, ai_result>>

\* the client goes away while the handler runs
ClientDisconnect ==
    /\ w_client = "connected"
    /\ wpc \in {"receive", "explain", "respond", "close"}
    /\ w_client' = "disconnected"
    /\ UNCHANGED <<wpc, w_req, w_explanations, w_result, w_sent, w_closed, ai_result>>

\* line 116: the connection is accepted
WsInit ==
    /\ wpc = "receive"
    /\ w_client = "connected"
    /\ w_req = <<>>
    /\ w_explanations = <<>>
    /\ w_result = NoMessage
    /\ w_sent = <<>>
    /\ w_closed = FALSE
    /\ ai_result = NoMessage
    /\ CohortIdle
    /\ EnrichIdle
    /\ ScoreIdle
    /\ RouteIdle
    /\ ListIdle

WsServerStep ==
    \/ ExplainModelReply /\ UNCHANGED <<cohortVars, enrichVars, scoreVars, routeVars, listVars>>
    \/ ExplainReturn /\ UNCHANGED <<cohortVars, enrichVars, scoreVars, routeVars, listVars>>
    \/ WsSend /\ UNCHANGED <<cohortVars, enrichVars, scoreVars, routeVars, listVars>>
    \/ WsClose /\ UNCHANGED <<cohortVars, enrichVars, scoreVars, routeVars, listVars>>

WsNext ==
    \/ WsReceive /\ UNCHANGED <<cohortVars, enrichVars, scoreVars, routeVars, listVars>>
    \/ WsReceiveDisconnect /\ UNCHANGED <<cohortVars, enrichVars, scoreVars, routeVars, listVars>>
    \/ ClientDisconnect /\ UNCHANGED <<cohortVars, enrichVars, scoreVars, routeVars, listVars>>
    \/ WsServerStep

SpecWs == WsInit /\ [][WsNext]_vars

\* Every call of the model carries a 120 s timeout (AIService.py line 36) and
\* send and close are awaited on the event loop, so a step of the handler that
\* stays possible is taken. Nothing makes the client send or stay.
SpecWsFair == SpecWs /\ WF_vars(WsServerStep)

\* the AI job ran to its end: every transaction has its valid explanation
JobFinished ==
    /\ w_result.detail # "request"
    /\ Len(w_explanations) = Len(w_req)
    /\ \A i \in DOMAIN w_explanations : w_explanations[i].complete

----------------------------------------------------------------------------
\* explain called on its own: AIService.py's and ai.py's, on the same request
ExplainInit ==
    /\ wpc = "explain"
    /\ w_client = "connected"
    /\ w_req \in ExplainRequests
    /\ w_explanations = <<>>
    /\ w_result = NoMessage
    /\ w_sent = <<>>
    /\ w_closed = FALSE
    /\ ai_result = NoMessage
    /\ CohortIdle
    /\ EnrichIdle
    /\ ScoreIdle
    /\ RouteIdle
    /\ ListIdle

\* ai.py lines 106-139
AiExplain ==
    /\ ai_result = NoMessage
    /\ ai_result' = ai_explain(w_req)
    /\ UNCHANGED <<wpc, w_client, w_req, w_explanations, w_result, w_sent, w_closed>>

ExplainNext ==
    \/ ExplainModelReply /\ UNCHANGED <<cohortVars, enrichVars, scoreVars, routeVars, listVars>>
    \/ ExplainReturn /\ UNCHANGED <<cohortVars, enrichVars, scoreVars, routeVars, listVars>>
    \/ AiExplain /\ UNCHANGED <<cohortVars, enrichVars, scoreVars, routeVars, listVars>>

SpecExplain == ExplainInit /\ [][ExplainNext]_vars

\* an ExplainResponse with one explanation per scored transaction of the
\* request, in its order and under its tx_hash
ResponseFor(msg, req) ==
    /\ msg.kind = "response"
    /\ Len(msg.explanations) = Len(req)
    /\ \A i \in DOMAIN req : msg.explanations[i].tx_hash = req[i]

\* C30: for every ExplainRequest, one with no scored transaction included,
\* explain returns an ExplainResponse with one explanation per scored
\* transaction, in request order, explanation i under the tx_hash of scored
\* transaction i whatever hash the model wrote.
C30_ExplanationPerTransaction ==
    /\ wpc = "respond" => ResponseFor(w_result, w_req)
    /\ ai_result # NoMessage => ResponseFor(ai_result, w_req)

====
